---- MODULE Spec2Model ----
(***************************************************************************)
(* A model of actox: the disconnect-aware queue (src/src/queue.rs), the    *)
(* subscriber (src/src/subscriber.rs), the topic bus (src/src/bus.rs), the *)
(* actor pool (src/src/actor_pool.rs) and the aggregating event loop       *)
(* (src/src/event_loop.rs).                                                *)
(*                                                                         *)
(* The specifications share the variables: SpecBus moves only the bus,     *)
(* SpecPool only the actor pool, SpecLoop only one event loop, SpecActor   *)
(* an actor, its caller and the pool, SpecQueue one queue pair.            *)
(***************************************************************************)
EXTENDS Integers, Sequences, FiniteSets, TLC

(***************************************************************************)
(* Bounds                                                                  *)
(***************************************************************************)
\* Subscriber::new is called at most MaxSubs times (uids 0 .. MaxSubs-1).
MaxSubs == 2
\* The backlog limit every Subscriber::new is called with.
Backlog == 1

Topics == {"t1", "t2"}
Msgs == {"m1", "m2"}
\* The threads that call Dispatch::publish.
Pubs == {"p1"}

\* A channel's buffer holds at most MaxChanLen messages not yet received
\* (mpsc::channel is unbounded).
MaxChanLen == 1

Names == {"a", "b"}
Types == {"T1", "T2"}
Chans == {"c1", "c2"}
\* The threads that call ActorPool::register.
RegThreads == {"r1", "r2"}

\* A source produces at most MaxEvents events before its terminal error.
MaxEvents == 2

Srcs == {"s1", "s2"}
\* The fatal errors a handler may return.
HandlerErrs == {"fatal1", "fatal2"}

\* queue::new is called with a limit of 0 .. MaxLimit, and at most MaxWrites
\* elements are written to the queue.
MaxLimit == 1
MaxWrites == 2

\* The first registry calls of a process: at most MaxCalls calls are made
\* while the registry is created.
MaxCalls == 3

\* At most MaxHandles handles of the bus exist at a time.
MaxHandles == 2

\* The caller of a running actor sends Put(0), ..., Put(MaxPuts-1), then Get.
MaxPuts == 2

\* The channel start_actor creates and the source that wraps its Receiver.
ActorChan == "ca"
InputSrc == "in"
AllChans == Chans \cup {ActorChan}
AllSrcs == Srcs \cup {InputSrc}

Uids == 0 .. (MaxSubs - 1)
Backlogs == {Backlog}

VARIABLES
    \* ---- bus ----
    COUNTER,    \* subscriber.rs: the static COUNTER of UniqueID::unique
    sub,        \* uid -> "none" (not created) | "live" | "dropped": the Subscriber
    queue,      \* uid -> the queue pair made by Subscriber::new:
                \*   buf (the channel's buffer), limit, rx (the Receiver exists),
                \*   flag (the shared `disconnected` AtomicBool)
    topics,     \* Dispatch.topics: topic -> (uid -> the uid whose Arc<Writer> is stored)
    pub,        \* publisher thread -> pc, topic, msg, todo (entries still to visit)
    subd,       \* history: the (topic, uid) pairs whose last completed call of
                \* subscribe/unsubscribe was subscribe
    dispatch    \* the number of Dispatch handles (clones of the bus) that exist

VARIABLES
    \* ---- actor pool ----
    pool,       \* actor_pool.rs: the POOL map, name -> the boxed Sender<T>:
                \*   chan (the channel it sends into), ty (its element type T)
    chan,       \* channel -> buf (the messages sent and not received yet),
                \*   rx (the Receiver exists)
    mutex,      \* the Mutex around the map: "free" or the thread that holds it
    rt,         \* registering thread -> pc, name, chan, found (locals of register)
    ret,        \* the result of the pool call that returned last
    regd        \* history: name -> the channels of the register(name) calls that
                \* returned Ok since the last unregister(name) that returned Ok

VARIABLES
    \* ---- event loop ----
    phase,      \* "assembling" | "running" (start_sync runs) | "returned"
    blocking,   \* EventLoop.blocking: the Vec of blocking sources
    polling,    \* EventLoop.polling: the VecDeque of polling sources
    src,        \* source -> counter, limit (the source of tests/event_loop.rs),
                \*   kind (how it was added)
    agg,        \* the aggregation channel of start_sync: buf, cap, rx (the
                \*   Receiver `aggregator` exists), dropped (the items that
                \*   were in the channel when the Receiver was dropped)
    bw,         \* blocking source -> its worker thread: pc, ev (the event it
                \*   holds), stop
    pw,         \* the polling worker thread: pc, sources (its deque), left (turns
                \*   of the for loop still to run), had (had_event), ev
    hs,         \* the handler: sum, handled (source -> payloads it was given, in
                \*   order), errs (source -> terminal errors it was given), calls
    hret,       \* what the handler's last invocation returned
    startRet    \* what start_sync returned

VARIABLES
    \* ---- actor ----
    actor,      \* the start_actor call: name, ret (what start_actor returned),
                \*   unreg (what the unregister of the actor's thread returned)
    client      \* the caller that sends to the actor: sent (messages of its
                \*   script sent so far), err (the error that stopped it)

VARIABLES
    \* ---- one queue pair ----
    qp,         \* the queue made by queue::new: buf, limit, rx, flag, waiting
                \*   (the reader is inside read or read_timeout)
    qtx,        \* the SyncSender of the Writer exists
    qends,      \* wr, rd: each end is "live", "dropping" (inside Drop::drop,
                \*   the flag is stored, the channel half not dropped yet) or
                \*   "gone", "none" before queue::new; rd is "read" / "timed"
                \*   inside read / read_timeout
    qlog        \* history: written (the elements try_write accepted), got (the
                \*   elements the reader was given), op and res (the call that
                \*   returned last and its outcome)

VARIABLES
    \* ---- the creation of the registry ----
    POOL,       \* the static AtomicPtr of ActorPool::pool: 0 is null, else the
                \*   number of the map it points to
    maps,       \* the maps allocated so far, in the order of allocation:
                \*   maps[i] is the set of names registered in map i
    lz          \* thread -> pc, op, name (the call), mine (the map the call
                \*   allocated), got (the map it loaded), res (its last result)

busVars == <<COUNTER, sub, queue, topics, pub, subd, dispatch>>
poolVars == <<pool, chan, mutex, rt, ret, regd>>
loopVars == <<phase, blocking, polling, src, agg, bw, pw, hs, hret, startRet>>
actorVars == <<actor, client>>
queueVars == <<qp, qtx, qends, qlog>>
lazyVars == <<POOL, maps, lz>>

vars == <<busVars, poolVars, loopVars, actorVars, queueVars, lazyVars>>

notBus == <<poolVars, loopVars, actorVars, queueVars, lazyVars>>
notPool == <<busVars, loopVars, actorVars, queueVars, lazyVars>>
notLoop == <<busVars, poolVars, actorVars, queueVars, lazyVars>>
notQueue == <<busVars, poolVars, loopVars, actorVars, lazyVars>>
notLazy == <<busVars, poolVars, loopVars, actorVars, queueVars>>

(***************************************************************************)
(* queue.rs                                                                *)
(***************************************************************************)
\* queue::new(limit): an empty channel of capacity limit, flag = false.
NewQueue(limit) ==
    [buf |-> <<>>, limit |-> limit, rx |-> TRUE, flag |-> FALSE,
     waiting |-> FALSE]

NoQueue ==
    [buf |-> <<>>, limit |-> 0, rx |-> FALSE, flag |-> FALSE, waiting |-> FALSE]

\* A try_write that never reports Full.
TryWrite_NoLimit(q, m) ==
    IF ~q.rx
    THEN [res |-> "Disconnected", q |-> [q EXCEPT !.flag = TRUE]]
    ELSE [res |-> "Ok", q |-> [q EXCEPT !.buf = Append(@, m)]]

\* A try_send that hands the element over whether or not a receiver waits.
Rendezvous_NoWait(q) == q.limit = 0 /\ q.buf = <<>>

\* A channel made by sync_channel(0) has no buffer: try_send hands the
\* element over when the receiver waits inside recv or recv_timeout.
Rendezvous(q) == q.limit = 0 /\ q.waiting /\ q.buf = <<>>

\* Writer::try_write on queue record q: SyncSender::try_send reports
\* Disconnected when the Receiver is gone, Full when the buffer holds limit
\* elements (and no receiver waits on a channel of limit 0), and appends
\* otherwise.
TryWrite(q, m) ==
    IF ~q.rx
    THEN [res |-> "Disconnected", q |-> [q EXCEPT !.flag = TRUE]]
    ELSE IF Len(q.buf) >= q.limit /\ ~Rendezvous(q)
         THEN [res |-> "Full", q |-> q]
         ELSE [res |-> "Ok", q |-> [q EXCEPT !.buf = Append(@, m)]]

\* Writer::disconnected: a load of the shared flag.
WriterDisconnected(q) == q.flag

\* Drop for Reader: stores true in the flag; the Receiver goes with it.
DropReader(q) == [q EXCEPT !.rx = FALSE, !.flag = TRUE, !.buf = <<>>]

\* A try_read that looks for the disconnect before it looks for an element.
TryRecv_DisconnectFirst(q, tx) ==
    IF ~tx
    THEN [res |-> "Disconnected", val |-> 0, q |-> [q EXCEPT !.flag = TRUE]]
    ELSE IF q.buf # <<>>
         THEN [res |-> "Some", val |-> Head(q.buf),
               q |-> [q EXCEPT !.buf = Tail(@)]]
         ELSE [res |-> "Empty", val |-> 0, q |-> q]

\* The match on receiver.try_recv() / recv() / recv_timeout() in the three
\* read functions: the next element; else, with the SyncSender gone, the
\* disconnect, which stores true in the flag; else nothing.
TryRecv(q, tx) ==
    IF q.buf # <<>>
    THEN [res |-> "Some", val |-> Head(q.buf), q |-> [q EXCEPT !.buf = Tail(@)]]
    ELSE IF ~tx
         THEN [res |-> "Disconnected", val |-> 0, q |-> [q EXCEPT !.flag = TRUE]]
         ELSE [res |-> "Empty", val |-> 0, q |-> q]

\* A Drop that leaves the flag alone.
DropStore_Nothing(q) == q

\* Drop::drop of either end: self.disconnected.store(true).
DropStore(q) == [q EXCEPT !.flag = TRUE]

\* Writer::try_write(v); v is the number of the write.
QTryWrite ==
    /\ qends.wr = "live"
    /\ Len(qlog.written) < MaxWrites
    /\ LET v == Len(qlog.written) + 1
           r == TryWrite(qp, v)
       IN /\ qp' = r.q
          /\ qlog' = [qlog EXCEPT !.op = "try_write", !.res = r.res,
                                  !.written = IF r.res = "Ok"
                                              THEN Append(@, v) ELSE @]
    /\ UNCHANGED <<qtx, qends>>
    /\ UNCHANGED notQueue

\* Reader::try_read.
QTryRead ==
    /\ qends.rd = "live"
    /\ LET r == TryRecv(qp, qtx)
       IN /\ qp' = r.q
          /\ qlog' = [qlog EXCEPT !.op = "try_read", !.res = r.res,
                                  !.got = IF r.res = "Some"
                                          THEN Append(@, r.val) ELSE @]
    /\ UNCHANGED <<qtx, qends>>
    /\ UNCHANGED notQueue

\* Reader::read / read_timeout is called: the reader is inside recv /
\* recv_timeout.
QReadCall(kind) ==
    /\ qends.rd = "live"
    /\ qends' = [qends EXCEPT !.rd = kind]
    /\ qp' = [qp EXCEPT !.waiting = TRUE]
    /\ UNCHANGED <<qtx, qlog>>
    /\ UNCHANGED notQueue

\* Reader::read returns: recv waits until there is an element or the
\* SyncSender is gone.
QReadReturn ==
    /\ qends.rd = "read"
    /\ LET r == TryRecv(qp, qtx)
       IN /\ r.res # "Empty"
          /\ qp' = [r.q EXCEPT !.waiting = FALSE]
          /\ qlog' = [qlog EXCEPT !.op = "read", !.res = r.res,
                                  !.got = IF r.res = "Some"
                                          THEN Append(@, r.val) ELSE @]
    /\ qends' = [qends EXCEPT !.rd = "live"]
    /\ UNCHANGED qtx
    /\ UNCHANGED notQueue

\* Reader::read_timeout returns: as read, or with nothing after the timeout.
QReadTimeoutReturn ==
    /\ qends.rd = "timed"
    /\ LET r == TryRecv(qp, qtx)
       IN /\ qp' = [r.q EXCEPT !.waiting = FALSE]
          /\ qlog' = [qlog EXCEPT !.op = "read_timeout",
                                  !.res = IF r.res = "Empty" THEN "Timeout"
                                          ELSE r.res,
                                  !.got = IF r.res = "Some"
                                          THEN Append(@, r.val) ELSE @]
    /\ qends' = [qends EXCEPT !.rd = "live"]
    /\ UNCHANGED qtx
    /\ UNCHANGED notQueue

\* The Writer is dropped: Drop::drop stores the flag ...
QDropWriter ==
    /\ qends.wr = "live"
    /\ qp' = DropStore(qp)
    /\ qends' = [qends EXCEPT !.wr = "dropping"]
    /\ UNCHANGED <<qtx, qlog>>
    /\ UNCHANGED notQueue

\* ... and then its SyncSender is dropped.
QDropSender ==
    /\ qends.wr = "dropping"
    /\ qtx' = FALSE
    /\ qends' = [qends EXCEPT !.wr = "gone"]
    /\ UNCHANGED <<qp, qlog>>
    /\ UNCHANGED notQueue

\* The Reader is dropped: Drop::drop stores the flag ...
QDropReader ==
    /\ qends.rd = "live"
    /\ qp' = DropStore(qp)
    /\ qends' = [qends EXCEPT !.rd = "dropping"]
    /\ UNCHANGED <<qtx, qlog>>
    /\ UNCHANGED notQueue

\* ... and then its Receiver is dropped, with what the channel holds.
QDropReceiver ==
    /\ qends.rd = "dropping"
    /\ qp' = DropReader(qp)
    /\ qends' = [qends EXCEPT !.rd = "gone"]
    /\ UNCHANGED <<qtx, qlog>>
    /\ UNCHANGED notQueue

\* queue::new(limit): the channel and the flag are made, the two ends are
\* returned.
QNew(limit) ==
    /\ qends.wr = "none"
    /\ qp' = NewQueue(limit)
    /\ qtx' = TRUE
    /\ qends' = [wr |-> "live", rd |-> "live"]
    /\ qlog' = [qlog EXCEPT !.op = "new", !.res = "Ok"]
    /\ UNCHANGED notQueue

\* Before queue::new is called.
QueueInit ==
    /\ qp = NoQueue
    /\ qtx = FALSE
    /\ qends = [wr |-> "none", rd |-> "none"]
    /\ qlog = [written |-> <<>>, got |-> <<>>, op |-> "none", res |-> "none"]

QueueNext ==
    \/ \E limit \in 0 .. MaxLimit : QNew(limit)
    \/ QTryWrite
    \/ QTryRead
    \/ QReadCall("read")
    \/ QReadCall("timed")
    \/ QReadReturn
    \/ QReadTimeoutReturn
    \/ QDropWriter
    \/ QDropSender
    \/ QDropReader
    \/ QDropReceiver

(***************************************************************************)
(* subscriber.rs                                                           *)
(***************************************************************************)
\* The Arc<Writer> handles of subscriber u that exist when the bus map is tp
\* and the subscribers are sb, counting the bus entries only.
WriterHandles_BusOnly(tp, sb, u) ==
    Cardinality(UNION {{<<t, k>> : k \in {x \in DOMAIN tp[t] : tp[t][x] = u}} :
                         t \in DOMAIN tp})

\* The Arc<Writer> handles of subscriber u that exist when the bus map is tp
\* and the subscribers are sb: the field `writer` of a live Subscriber and
\* one clone for each entry the bus stores.
WriterHandles(tp, sb, u) ==
    (IF sb[u] = "live" THEN 1 ELSE 0)
    + Cardinality(UNION {{<<t, k>> : k \in {x \in DOMAIN tp[t] : tp[t][x] = u}} :
                           t \in DOMAIN tp})

\* The queues once the bus map is tp and the subscribers are sb: a Writer
\* whose last Arc is gone is dropped, and Drop for Writer stores true in
\* the flag.
DropWriters(q, tp, sb) ==
    [u \in Uids |-> IF sb[u] # "none" /\ WriterHandles(tp, sb, u) = 0
                    THEN DropStore(q[u]) ELSE q[u]]

\* Subscriber::new(backlog): uid = COUNTER.fetch_add(1), a fresh queue.
NewSubscriber(backlog) ==
    /\ COUNTER < MaxSubs
    /\ COUNTER' = COUNTER + 1
    /\ sub' = [sub EXCEPT ![COUNTER] = "live"]
    /\ queue' = [queue EXCEPT ![COUNTER] = NewQueue(backlog)]
    /\ UNCHANGED <<dispatch, topics, pub, subd>>
    /\ UNCHANGED notBus

\* The Subscriber goes out of scope: its Arc<Writer> is released and its
\* Reader is dropped (the Arc<Writer> handles the bus still holds keep the
\* Writer itself alive).
DropSubscriber(u) ==
    /\ sub[u] = "live"
    /\ sub' = [sub EXCEPT ![u] = "dropped"]
    /\ queue' = DropWriters([queue EXCEPT ![u] = DropReader(@)], topics,
                            [sub EXCEPT ![u] = "dropped"])
    /\ UNCHANGED <<dispatch, COUNTER, topics, pub, subd>>
    /\ UNCHANGED notBus

\* A read that takes the element written last.
Read_TakesLast(u) ==
    /\ sub[u] = "live"
    /\ queue[u].buf # <<>>
    /\ queue' = [queue EXCEPT ![u].buf = SubSeq(@, 1, Len(@) - 1)]
    /\ UNCHANGED <<dispatch, COUNTER, sub, topics, pub, subd>>
    /\ UNCHANGED notBus

\* Reader::read / try_read / read_timeout of a live subscriber that finds an
\* element: the head of the buffer is taken.
Read(u) ==
    /\ sub[u] = "live"
    /\ queue[u].buf # <<>>
    /\ queue' = [queue EXCEPT ![u].buf = Tail(@)]
    /\ UNCHANGED <<dispatch, COUNTER, sub, topics, pub, subd>>
    /\ UNCHANGED notBus

(***************************************************************************)
(* bus.rs                                                                  *)
(***************************************************************************)
\* The RwLock of Dispatch.topics: the publishers inside publish hold it for
\* reading; a writer gets it only when nobody reads.
Readers == {p \in Pubs : pub[p].pc \in {"iter", "list"}}
WriteLockFree == Readers = {}

IdlePub == [pc |-> "idle", topic |-> "t1", msg |-> "m1", todo |-> {}]

\* Dispatch::topics: the keys of the map.
TopicList == DOMAIN topics

\* topics, line 37: take the read lock.
TopicsLock(p) ==
    /\ dispatch > 0
    /\ pub[p].pc = "idle"
    /\ pub' = [pub EXCEPT ![p].pc = "list"]
    /\ UNCHANGED <<dispatch, COUNTER, sub, queue, topics, subd>>
    /\ UNCHANGED notBus

\* topics, line 38: the keys are cloned, the read guard is dropped.
TopicsReturn(p) ==
    /\ pub[p].pc = "list"
    /\ pub' = [pub EXCEPT ![p] = IdlePub]
    /\ UNCHANGED <<dispatch, COUNTER, sub, queue, topics, subd>>
    /\ UNCHANGED notBus

\* publish, lines 52-53: take the read lock and look the topic up.
PublishLock(p, t, m) ==
    /\ dispatch > 0
    /\ pub[p].pc = "idle"
    /\ pub' = [pub EXCEPT ![p] = [pc |-> "iter", topic |-> t, msg |-> m,
                                  todo |-> IF t \in DOMAIN topics
                                           THEN DOMAIN topics[t] ELSE {}]]
    /\ UNCHANGED <<dispatch, COUNTER, sub, queue, topics, subd>>
    /\ UNCHANGED notBus

\* A publish that gives up at the first try_write that fails.
PublishStep_StopsAtFailure(p, u) ==
    /\ pub[p].pc = "iter"
    /\ u \in pub[p].todo
    /\ LET w == topics[pub[p].topic][u]
           r == TryWrite(queue[w], pub[p].msg)
       IN /\ queue' = [queue EXCEPT ![w] = r.q]
          /\ pub' = [pub EXCEPT ![p].todo = IF r.res = "Ok" THEN @ \ {u}
                                            ELSE {}]
    /\ UNCHANGED <<dispatch, COUNTER, sub, topics, subd>>
    /\ UNCHANGED notBus

\* publish, lines 55-58: one turn of the loop over subscribers.values(), a
\* best-effort try_write whose result is discarded.
PublishStep(p, u) ==
    /\ pub[p].pc = "iter"
    /\ u \in pub[p].todo
    /\ LET w == topics[pub[p].topic][u]
       IN queue' = [queue EXCEPT ![w] = TryWrite(@, pub[p].msg).q]
    /\ pub' = [pub EXCEPT ![p].todo = @ \ {u}]
    /\ UNCHANGED <<dispatch, COUNTER, sub, topics, subd>>
    /\ UNCHANGED notBus

\* publish returns: the loop is over, the read guard is dropped.
PublishReturn(p) ==
    /\ pub[p].pc = "iter"
    /\ pub[p].todo = {}
    /\ pub' = [pub EXCEPT ![p] = IdlePub]
    /\ UNCHANGED <<dispatch, COUNTER, sub, queue, topics, subd>>
    /\ UNCHANGED notBus

\* A subscribe that stores the writer of a subscriber already in the topic's
\* map once more, under a key of its own.
SubscribeMap_Duplicates(t, u) ==
    LET old == IF t \in DOMAIN topics THEN topics[t] ELSE [x \in {} |-> x]
        free == Uids \ (DOMAIN old \cup {u})
        key == IF u \in DOMAIN old /\ free # {}
               THEN CHOOSE x \in free : TRUE ELSE u
        new == [x \in DOMAIN old \cup {key} |-> IF x = key THEN u ELSE old[x]]
    IN [x \in DOMAIN topics \cup {t} |-> IF x = t THEN new ELSE topics[x]]

\* The map after subscribe(t, u): the topic's map is created if absent and
\* u's writer is stored under u's uid.
SubscribeMap(t, u) ==
    LET old == IF t \in DOMAIN topics THEN topics[t] ELSE [x \in {} |-> x]
        new == [x \in DOMAIN old \cup {u} |-> IF x = u THEN u ELSE old[x]]
    IN [x \in DOMAIN topics \cup {t} |-> IF x = t THEN new ELSE topics[x]]

Subscribe(t, u) ==
    /\ dispatch > 0
    /\ sub[u] = "live"
    /\ WriteLockFree
    /\ topics' = SubscribeMap(t, u)
    /\ subd' = subd \cup {<<t, u>>}
    /\ UNCHANGED <<dispatch, COUNTER, sub, queue, pub>>
    /\ UNCHANGED notBus

\* An unsubscribe that also removes the topic's map once it is empty.
UnsubscribeMap_RemovesTopic(t, u) ==
    IF t \in DOMAIN topics
    THEN IF DOMAIN topics[t] \subseteq {u}
         THEN [x \in DOMAIN topics \ {t} |-> topics[x]]
         ELSE [topics EXCEPT
                 ![t] = [x \in DOMAIN topics[t] \ {u} |-> topics[t][x]]]
    ELSE topics

\* An unsubscribe that looks the subscriber up under the wrong key and so
\* removes nothing.
UnsubscribeMap_Keeps(t, u) == topics

\* The map after unsubscribe(t, u): u's entry is removed from the topic's
\* map when the topic exists; the topic's map stays.
UnsubscribeMap(t, u) ==
    IF t \in DOMAIN topics
    THEN [topics EXCEPT ![t] = [x \in DOMAIN topics[t] \ {u} |-> topics[t][x]]]
    ELSE topics

Unsubscribe(t, u) ==
    /\ dispatch > 0
    /\ sub[u] = "live"
    /\ WriteLockFree
    /\ topics' = UnsubscribeMap(t, u)
    /\ queue' = DropWriters(queue, UnsubscribeMap(t, u), sub)
    /\ subd' = subd \ {<<t, u>>}
    /\ UNCHANGED <<dispatch, COUNTER, sub, pub>>
    /\ UNCHANGED notBus

\* A shrink_to_fit without the second retain: emptied topics stay.
ShrinkMap_KeepsEmptyTopics ==
    [t \in DOMAIN topics |->
        [x \in {y \in DOMAIN topics[t] :
                  ~WriterDisconnected(queue[topics[t][y]])}
           |-> topics[t][x]]]

\* The map after shrink_to_fit: retain the writers that do not report
\* disconnected, then retain the topics whose map is not empty.
ShrinkMap ==
    LET kept == [t \in DOMAIN topics |->
                    [x \in {y \in DOMAIN topics[t] :
                              ~WriterDisconnected(queue[topics[t][y]])}
                       |-> topics[t][x]]]
    IN [t \in {s \in DOMAIN kept : DOMAIN kept[s] # {}} |-> kept[t]]

ShrinkToFit ==
    /\ dispatch > 0
    /\ WriteLockFree
    /\ topics' = ShrinkMap
    /\ queue' = DropWriters(queue, ShrinkMap, sub)
    /\ UNCHANGED <<dispatch, COUNTER, sub, pub, subd>>
    /\ UNCHANGED notBus

\* Dispatch is Clone: one more handle of the same map.
CloneDispatch ==
    /\ dispatch > 0
    /\ dispatch < MaxHandles
    /\ dispatch' = dispatch + 1
    /\ UNCHANGED <<COUNTER, sub, queue, topics, pub, subd>>
    /\ UNCHANGED notBus

\* A Dispatch handle is released; no call borrows the last one. With the
\* last handle the map goes, and with it every Arc<Writer> stored in it.
DropDispatch ==
    /\ dispatch > 0
    /\ dispatch = 1 => pub = [p \in Pubs |-> IdlePub]
    /\ dispatch' = dispatch - 1
    /\ topics' = IF dispatch = 1 THEN [t \in {} |-> t] ELSE topics
    /\ queue' = IF dispatch = 1
                THEN DropWriters(queue, [t \in {} |-> t], sub) ELSE queue
    /\ UNCHANGED <<COUNTER, sub, pub, subd>>
    /\ UNCHANGED notBus

BusInit ==
    /\ COUNTER = 0
    /\ sub = [u \in Uids |-> "none"]
    /\ queue = [u \in Uids |-> NoQueue]
    /\ topics = [t \in {} |-> t]
    /\ pub = [p \in Pubs |-> IdlePub]
    /\ subd = {}
    /\ dispatch = 1

BusNext ==
    \/ \E b \in Backlogs : NewSubscriber(b)
    \/ \E u \in Uids : DropSubscriber(u)
    \/ \E u \in Uids : Read(u)
    \/ \E p \in Pubs, t \in Topics, m \in Msgs : PublishLock(p, t, m)
    \/ \E p \in Pubs, u \in Uids : PublishStep(p, u)
    \/ \E p \in Pubs : PublishReturn(p)
    \/ \E t \in Topics, u \in Uids : Subscribe(t, u)
    \/ \E t \in Topics, u \in Uids : Unsubscribe(t, u)
    \/ ShrinkToFit

(***************************************************************************)
(* actor_pool.rs                                                           *)
(***************************************************************************)
\* The element type of each channel: c1 is a channel of T1, c2 one of T2, the
\* channel of start_actor one of the handler's event type.
ChanType ==
    [c \in AllChans |->
        IF c = "c1" THEN "T1" ELSE IF c = "c2" THEN "T2" ELSE "Message"]

IdleReg == [pc |-> "idle", name |-> "a", chan |-> "c1", found |-> FALSE]

\* A register that does not wait for the mutex.
RegisterLock_NoMutex(t, c, n) ==
    /\ rt[t].pc = "idle"
    /\ mutex' = t
    /\ rt' = [rt EXCEPT ![t] = [pc |-> "check", name |-> n, chan |-> c,
                                found |-> FALSE]]
    /\ UNCHANGED <<pool, chan, ret, regd>>
    /\ UNCHANGED notPool

\* register, lines 21-22: the call register(Sender of c, n) takes the mutex.
RegisterLock(t, c, n) ==
    /\ rt[t].pc = "idle"
    /\ mutex = "free"
    /\ mutex' = t
    /\ rt' = [rt EXCEPT ![t] = [pc |-> "check", name |-> n, chan |-> c,
                                found |-> FALSE]]
    /\ UNCHANGED <<pool, chan, ret, regd>>
    /\ UNCHANGED notPool

\* A register that takes the write lock of the bus while it holds the mutex.
RegisterCheck_TakesBusLock(t) ==
    /\ rt[t].pc = "check"
    /\ WriteLockFree
    /\ rt' = [rt EXCEPT ![t].pc = "insert",
                        ![t].found = (rt[t].name \in DOMAIN pool)]
    /\ UNCHANGED <<pool, chan, mutex, ret, regd>>
    /\ UNCHANGED notPool

\* register, line 26: pool.contains_key(&name).
RegisterCheck(t) ==
    /\ rt[t].pc = "check"
    /\ rt' = [rt EXCEPT ![t].pc = "insert",
                        ![t].found = (rt[t].name \in DOMAIN pool)]
    /\ UNCHANGED <<pool, chan, mutex, ret, regd>>
    /\ UNCHANGED notPool

\* HashMap::insert: the entry of n is set, replacing an older one.
Insert(n, e) == [x \in DOMAIN pool \cup {n} |-> IF x = n THEN e ELSE pool[x]]

\* A register that inserts before it looks: the older entry is replaced and
\* ExistsAlready is still reported.
RegisterFinish_Overwrites(t) ==
    /\ rt[t].pc = "insert"
    /\ pool' = Insert(rt[t].name,
                      [chan |-> rt[t].chan, ty |-> ChanType[rt[t].chan]])
    /\ IF ~rt[t].found
       THEN /\ ret' = "Ok"
            /\ regd' = [regd EXCEPT ![rt[t].name] = Append(@, rt[t].chan)]
       ELSE /\ ret' = "ExistsAlready"
            /\ UNCHANGED regd
    /\ mutex' = "free"
    /\ rt' = [rt EXCEPT ![t] = IdleReg]
    /\ UNCHANGED chan
    /\ UNCHANGED notPool

\* register, lines 26-28: insert the boxed sender and return Ok, or throw
\* ExistsAlready; the guard is dropped on return.
RegisterFinish(t) ==
    /\ rt[t].pc = "insert"
    /\ IF ~rt[t].found
       THEN /\ pool' = Insert(rt[t].name,
                              [chan |-> rt[t].chan, ty |-> ChanType[rt[t].chan]])
            /\ ret' = "Ok"
            /\ regd' = [regd EXCEPT ![rt[t].name] = Append(@, rt[t].chan)]
       ELSE /\ ret' = "ExistsAlready"
            /\ UNCHANGED <<pool, regd>>
    /\ mutex' = "free"
    /\ rt' = [rt EXCEPT ![t] = IdleReg]
    /\ UNCHANGED chan
    /\ UNCHANGED notPool

\* An unregister that clears the map.
UnregisterMap_Clears(n) == [x \in {} |-> pool[x]]

\* unregister, line 42: pool.remove(&name) or throw NotFound.
UnregisterResult(n) == IF n \in DOMAIN pool THEN "Ok" ELSE "NotFound"
UnregisterMap(n) == [x \in DOMAIN pool \ {n} |-> pool[x]]

Unregister(n) ==
    /\ mutex = "free"
    /\ pool' = UnregisterMap(n)
    /\ ret' = UnregisterResult(n)
    /\ regd' = IF ret' = "Ok" THEN [regd EXCEPT ![n] = <<>>] ELSE regd
    /\ UNCHANGED <<chan, mutex, rt>>
    /\ UNCHANGED notPool

\* registered, lines 48-50: the keys of the map, cloned under the mutex.
RegisteredList ==
    /\ mutex = "free"
    /\ ret' = IF DOMAIN pool = {} THEN "ListedNone" ELSE "Listed"
    /\ UNCHANGED <<pool, chan, mutex, rt, regd>>
    /\ UNCHANGED notPool

\* A send without the downcast check.
SendResult_NoTypeCheck(n, ty) ==
    IF n \notin DOMAIN pool THEN "NotFound"
    ELSE IF ~chan[pool[n].chan].rx THEN "EndpointNotConnected"
    ELSE "Ok"

\* A send that discards the result of Sender::send.
SendResult_IgnoresSendError(n, ty) ==
    IF n \notin DOMAIN pool THEN "NotFound"
    ELSE IF pool[n].ty # ty THEN "TypeMismatch"
    ELSE "Ok"

\* send, lines 66-70: look the name up, downcast the box to Sender<T>, send.
\* Sender::send fails only when the Receiver is gone.
SendResult(n, ty) ==
    IF n \notin DOMAIN pool THEN "NotFound"
    ELSE IF pool[n].ty # ty THEN "TypeMismatch"
    ELSE IF ~chan[pool[n].chan].rx THEN "EndpointNotConnected"
    ELSE "Ok"

\* send::<ty>(n, m), the whole call under the mutex.
Send(n, ty, m) ==
    /\ mutex = "free"
    /\ ret' = SendResult(n, ty)
    /\ IF ret' = "Ok"
       THEN /\ Len(chan[pool[n].chan].buf) < MaxChanLen
            /\ chan' = [chan EXCEPT ![pool[n].chan].buf = Append(@, m)]
       ELSE UNCHANGED chan
    /\ UNCHANGED <<pool, mutex, rt, regd>>
    /\ UNCHANGED notPool

\* Receiver::recv / try_recv by the owner of channel c's receiving end.
Recv(c) ==
    /\ chan[c].rx
    /\ chan[c].buf # <<>>
    /\ chan' = [chan EXCEPT ![c].buf = Tail(@)]
    /\ UNCHANGED <<pool, mutex, rt, ret, regd>>
    /\ UNCHANGED notPool

\* The owner of channel c's receiving end releases it.
DropReceiver(c) ==
    /\ chan[c].rx
    /\ chan' = [chan EXCEPT ![c] = [buf |-> <<>>, rx |-> FALSE]]
    /\ UNCHANGED <<pool, mutex, rt, ret, regd>>
    /\ UNCHANGED notPool

(***************************************************************************)
(* actor_pool.rs: pool(), the creation of the registry on first use        *)
(***************************************************************************)
LazyOps == {"register", "unregister", "send", "registered"}
IdleCall == [pc |-> "idle", op |-> "registered", name |-> "a", mine |-> 0,
             got |-> 0, res |-> "none"]

\* A registry call starts; pool(), line 79: a new empty map is allocated for
\* the compare_and_swap.
LazyCall(t, op, n) ==
    /\ lz[t].pc = "idle"
    /\ Len(maps) < MaxCalls
    /\ LET i == Len(maps) + 1
       IN /\ maps' = Append(maps, {})
          /\ lz' = [lz EXCEPT ![t] = [pc |-> "cas", op |-> op, name |-> n,
                                      mine |-> i, got |-> 0, res |-> "none"]]
    /\ UNCHANGED POOL
    /\ UNCHANGED notLazy

\* A pool() that stores its new map whatever the pointer holds.
LazySwap_Stores(t) ==
    /\ lz[t].pc = "cas"
    /\ POOL' = lz[t].mine
    /\ lz' = [lz EXCEPT ![t].pc = "load"]
    /\ UNCHANGED maps
    /\ UNCHANGED notLazy

\* pool(), lines 77-81: POOL.compare_and_swap(null, new map, SeqCst); the new
\* map is stored only into a null pointer.
LazySwap(t) ==
    /\ lz[t].pc = "cas"
    /\ POOL' = IF POOL = 0 THEN lz[t].mine ELSE POOL
    /\ lz' = [lz EXCEPT ![t].pc = "load"]
    /\ UNCHANGED maps
    /\ UNCHANGED notLazy

\* pool(), line 82: POOL.load(SeqCst), dereferenced and cloned.
LazyLoad(t) ==
    /\ lz[t].pc = "load"
    /\ lz' = [lz EXCEPT ![t].pc = "op", ![t].got = POOL]
    /\ UNCHANGED <<POOL, maps>>
    /\ UNCHANGED notLazy

\* The rest of the call, under the mutex of the map the call loaded:
\* register, unregister, send (to an endpoint of the right type whose
\* receiver is there) or registered.
LazyOp(t) ==
    /\ lz[t].pc = "op"
    /\ LET g == lz[t].got
           n == lz[t].name
           has == n \in maps[g]
       IN /\ maps' = [maps EXCEPT ![g] =
                         IF lz[t].op = "register" THEN @ \cup {n}
                         ELSE IF lz[t].op = "unregister" THEN @ \ {n}
                         ELSE @]
          /\ lz' = [lz EXCEPT ![t].pc = "idle",
                              ![t].res =
                                 IF lz[t].op = "register"
                                 THEN IF has THEN "ExistsAlready" ELSE "Ok"
                                 ELSE IF lz[t].op = "registered"
                                 THEN IF maps[g] = {} THEN "ListedNone"
                                      ELSE "Listed"
                                 ELSE IF has THEN "Ok" ELSE "NotFound"]
    /\ UNCHANGED POOL
    /\ UNCHANGED notLazy

LazyInit ==
    /\ POOL = 0
    /\ maps = <<>>
    /\ lz = [t \in RegThreads |-> IdleCall]

LazyNext ==
    \/ \E t \in RegThreads, op \in LazyOps : LazyCall(t, op, "a")
    \/ \E t \in RegThreads : LazySwap(t)
    \/ \E t \in RegThreads : LazyLoad(t)
    \/ \E t \in RegThreads : LazyOp(t)

PoolInit ==
    /\ pool = [n \in {} |-> n]
    /\ chan = [c \in AllChans |-> [buf |-> <<>>, rx |-> c \in Chans]]
    /\ mutex = "free"
    /\ rt = [t \in RegThreads |-> IdleReg]
    /\ ret = "none"
    /\ regd = [n \in Names |-> <<>>]

PoolNext ==
    \/ \E t \in RegThreads, c \in Chans, n \in Names : RegisterLock(t, c, n)
    \/ \E t \in RegThreads : RegisterCheck(t)
    \/ \E t \in RegThreads : RegisterFinish(t)
    \/ \E n \in Names : Unregister(n)
    \/ \E n \in Names, ty \in Types, m \in Msgs : Send(n, ty, m)
    \/ \E c \in Chans : Recv(c)
    \/ \E c \in Chans : DropReceiver(c)

(***************************************************************************)
(* event_loop.rs                                                           *)
(***************************************************************************)
\* Option<Result<Event<E>, Event<R>>>: None, Some(Ok(event)), Some(Err(event)).
NoEvent == [k |-> "none", s |-> "-", v |-> 0]
OkEvent(s, v) == [k |-> "ok", s |-> s, v |-> v]
ErrEvent(s) == [k |-> "err", s |-> s, v |-> 0]

\* A Sender of channel c exists: the registry holds the only one.
SenderAlive(c) == \E n \in DOMAIN pool : pool[n].chan = c

\* MpscEventSource::poll: input.try_recv() gives the next message, None on
\* an empty channel, the error once it is empty and every Sender is gone.
MpscOutcomes(s) ==
    IF chan[ActorChan].buf # <<>>
    THEN {OkEvent(s, Head(chan[ActorChan].buf))}
    ELSE IF SenderAlive(ActorChan) THEN {NoEvent} ELSE {ErrEvent(s)}

\* tests/event_loop.rs, TestEventSource::wait / poll: the terminal error once
\* counter = limit; before that nothing, or the counter as the next payload.
Outcomes(s) ==
    IF src[s].kind = "mpsc"
    THEN MpscOutcomes(s)
    ELSE IF src[s].counter = src[s].limit
         THEN {ErrEvent(s)}
         ELSE {NoEvent, OkEvent(s, src[s].counter)}

\* A poll that looks at the next message and leaves it in the channel.
Received_Keeps(s, e) == chan

\* The channels after source s returned e: try_recv took the message.
Received(s, e) ==
    IF src[s].kind = "mpsc" /\ e.k = "ok"
    THEN [chan EXCEPT ![ActorChan].buf = Tail(@)]
    ELSE chan

\* The channels after the polling worker let go of the sources it holds, or
\* of the input source alone: the Receiver of the actor's channel is dropped.
InputDropped ==
    IF src[InputSrc].kind = "mpsc"
    THEN [chan EXCEPT ![ActorChan] = [buf |-> <<>>, rx |-> FALSE]]
    ELSE chan

\* The source after it returned e: the counter moves on with an event.
Advance(s, e) ==
    IF e.k = "ok" THEN [src EXCEPT ![s].counter = @ + 1] ELSE src

NoSource == [counter |-> 0, limit |-> 0, kind |-> "none"]
Added == {blocking[i] : i \in DOMAIN blocking} \cup {polling[i] : i \in DOMAIN polling}

IdleWorker == [pc |-> "none", ev |-> NoEvent, stop |-> FALSE]
DoneWorker == [pc |-> "done", ev |-> NoEvent, stop |-> FALSE]
IdlePoller == [pc |-> "none", sources |-> <<>>, left |-> 0, had |-> FALSE,
               ev |-> NoEvent]
DonePoller == [pc |-> "done", sources |-> <<>>, left |-> 0, had |-> FALSE,
               ev |-> NoEvent]

\* A consumer for which every sender is gone at any time.
LiveSenders_None == {}

\* A start_sync that hands a clone to the polling worker too and keeps the
\* first SyncSender in its own frame.
LiveSenders_KeepsOriginal ==
    {s \in Srcs : bw[s].pc \in {"wait", "send"}}
       \cup (IF pw.pc \in {"loop", "poll", "send", "sleep"} THEN {"poller"} ELSE {})
       \cup (IF phase = "running" THEN {"start_sync"} ELSE {})

\* The SyncSenders of the aggregation channel still alive: one per running
\* blocking worker and the polling worker's.
LiveSenders ==
    {s \in Srcs : bw[s].pc \in {"wait", "send"}}
       \cup (IF pw.pc \in {"loop", "poll", "send", "sleep"} THEN {"poller"} ELSE {})

\* add_blocking_source: push the source.
AddBlockingSource(s, lim) ==
    /\ phase = "assembling"
    /\ s \notin Added
    /\ blocking' = Append(blocking, s)
    /\ src' = [src EXCEPT ![s] = [counter |-> 0, limit |-> lim,
                                  kind |-> "blocking"]]
    /\ UNCHANGED <<phase, polling, agg, bw, pw, hs, hret, startRet>>
    /\ UNCHANGED notLoop

\* add_polling_source: push_back the source.
AddPollingSource(s, lim) ==
    /\ phase = "assembling"
    /\ s \notin Added
    /\ polling' = Append(polling, s)
    /\ src' = [src EXCEPT ![s] = [counter |-> 0, limit |-> lim,
                                  kind |-> "polling"]]
    /\ UNCHANGED <<phase, blocking, agg, bw, pw, hs, hret, startRet>>
    /\ UNCHANGED notLoop

\* start_sync, lines 93-102: the channel sized to the number of sources, one
\* worker per blocking source, one worker for the polling sources.
Start ==
    /\ phase = "assembling"
    /\ phase' = "running"
    /\ agg' = [buf |-> <<>>, cap |-> Len(blocking) + Len(polling), rx |-> TRUE,
               dropped |-> 0]
    /\ bw' = [s \in Srcs |->
                IF \E i \in DOMAIN blocking : blocking[i] = s
                THEN [pc |-> "wait", ev |-> NoEvent, stop |-> FALSE]
                ELSE IdleWorker]
    /\ pw' = [pc |-> "loop", sources |-> polling, left |-> 0, had |-> FALSE,
              ev |-> NoEvent]
    /\ blocking' = <<>>
    /\ polling' = <<>>
    /\ UNCHANGED <<src, hs, hret, startRet>>
    /\ UNCHANGED notLoop

\* aggregate_blocking_source_async, lines 153-154: source.wait(), stop on error.
BlockingWait(s) ==
    /\ bw[s].pc = "wait"
    /\ \E e \in Outcomes(s) :
          /\ src' = Advance(s, e)
          /\ bw' = [bw EXCEPT ![s] = [pc |-> "send", ev |-> e,
                                      stop |-> (e.k = "err")]]
    /\ UNCHANGED <<phase, blocking, polling, agg, pw, hs, hret, startRet>>
    /\ UNCHANGED notLoop

\* A send that goes on waiting for room when the Receiver is gone.
BlockingSend_WaitsOn(s) ==
    /\ bw[s].pc = "send"
    /\ agg.rx
    /\ Len(agg.buf) < agg.cap
    /\ agg' = [agg EXCEPT !.buf = Append(@, bw[s].ev)]
    /\ bw' = [bw EXCEPT ![s] =
                 IF bw[s].stop THEN DoneWorker
                 ELSE [pc |-> "wait", ev |-> NoEvent, stop |-> FALSE]]
    /\ UNCHANGED <<phase, blocking, polling, src, pw, hs, hret, startRet>>
    /\ UNCHANGED notLoop

\* aggregate_blocking_source_async, line 157: aggregator.send(event) waits for
\* room; it fails, and the thread returns, when the Receiver is gone.
BlockingSend(s) ==
    /\ bw[s].pc = "send"
    /\ IF ~agg.rx
       THEN /\ bw' = [bw EXCEPT ![s] = DoneWorker]
            /\ UNCHANGED agg
       ELSE /\ Len(agg.buf) < agg.cap
            /\ agg' = [agg EXCEPT !.buf = Append(@, bw[s].ev)]
            /\ bw' = [bw EXCEPT ![s] =
                         IF bw[s].stop THEN DoneWorker
                         ELSE [pc |-> "wait", ev |-> NoEvent, stop |-> FALSE]]
    /\ UNCHANGED <<phase, blocking, polling, src, pw, hs, hret, startRet>>
    /\ UNCHANGED notLoop

\* A sweep that takes one turn more than it has sources.
PollerLoop_ExtraTurn ==
    /\ pw.pc = "loop"
    /\ pw' = IF pw.sources = <<>>
             THEN DonePoller
             ELSE [pw EXCEPT !.pc = "poll", !.had = FALSE,
                             !.left = Len(pw.sources) + 1]
    /\ UNCHANGED <<phase, blocking, polling, src, agg, bw, hs, hret, startRet>>
    /\ UNCHANGED notLoop

\* aggregate_polling_sources_async, lines 163-168: while !sources.is_empty(),
\* had_event = false, for _ in 0..sources.len().
PollerLoop ==
    /\ pw.pc = "loop"
    /\ pw' = IF pw.sources = <<>>
             THEN DonePoller
             ELSE [pw EXCEPT !.pc = "poll", !.had = FALSE,
                             !.left = Len(pw.sources)]
    /\ UNCHANGED <<phase, blocking, polling, src, agg, bw, hs, hret, startRet>>
    /\ UNCHANGED notLoop

\* A polling worker that pushes every source back, also after an error.
PollerPoll_KeepsFailed ==
    /\ pw.pc = "poll"
    /\ pw.left > 0
    /\ IF pw.sources = <<>>
       THEN /\ pw' = [pw EXCEPT !.pc = "panic"]
            /\ UNCHANGED <<src, chan>>
       ELSE LET s == Head(pw.sources)
            IN \E e \in Outcomes(s) :
                  /\ src' = Advance(s, e)
                  /\ chan' = Received(s, e)
                  /\ pw' = [pc |-> "send",
                            sources |-> Append(Tail(pw.sources), s),
                            left |-> pw.left - 1,
                            had |-> (pw.had \/ e.k # "none"),
                            ev |-> e]
    /\ UNCHANGED <<phase, blocking, polling, agg, bw, hs, hret, startRet>>
    /\ UNCHANGED <<pool, mutex, rt, ret, regd>>
    /\ UNCHANGED <<busVars, actorVars, queueVars, lazyVars>>

\* lines 170-178: pop_front().unwrap(), poll, set had_event, push the source
\* back unless it returned an error.
PollerPoll ==
    /\ pw.pc = "poll"
    /\ pw.left > 0
    /\ IF pw.sources = <<>>
       THEN /\ pw' = [pw EXCEPT !.pc = "panic"]
            /\ UNCHANGED <<src, chan>>
       ELSE LET s == Head(pw.sources)
            IN \E e \in Outcomes(s) :
                  /\ src' = Advance(s, e)
                  /\ chan' = Received(s, e)
                  /\ pw' = [pc |-> "send",
                            sources |-> IF e.k = "err"
                                        THEN Tail(pw.sources)
                                        ELSE Append(Tail(pw.sources), s),
                            left |-> pw.left - 1,
                            had |-> (pw.had \/ e.k # "none"),
                            ev |-> e]
    /\ UNCHANGED <<phase, blocking, polling, agg, bw, hs, hret, startRet>>
    /\ UNCHANGED <<pool, mutex, rt, ret, regd>>
    /\ UNCHANGED <<busVars, actorVars, queueVars, lazyVars>>

\* line 181: aggregator.send(event), as in the blocking worker. A source
\* that returned an error goes out of scope here, and all sources do when the
\* thread returns.
PollerSend ==
    /\ pw.pc = "send"
    /\ IF ~agg.rx
       THEN /\ pw' = DonePoller
            /\ chan' = InputDropped
            /\ UNCHANGED agg
       ELSE /\ Len(agg.buf) < agg.cap
            /\ agg' = [agg EXCEPT !.buf = Append(@, pw.ev)]
            /\ pw' = [pw EXCEPT !.pc = "poll", !.ev = NoEvent]
            /\ chan' = IF pw.ev.k = "err" /\ pw.ev.s = InputSrc
                       THEN InputDropped ELSE chan
    /\ UNCHANGED <<phase, blocking, polling, src, bw, hs, hret, startRet>>
    /\ UNCHANGED <<pool, mutex, rt, ret, regd>>
    /\ UNCHANGED <<busVars, actorVars, queueVars, lazyVars>>

\* line 185: the sweep is over; sleep if no source had an event.
PollerSweepEnd ==
    /\ pw.pc = "poll"
    /\ pw.left = 0
    /\ pw' = [pw EXCEPT !.pc = IF pw.had THEN "loop" ELSE "sleep",
                        !.had = FALSE]
    /\ UNCHANGED <<phase, blocking, polling, src, agg, bw, hs, hret, startRet>>
    /\ UNCHANGED notLoop

\* thread::sleep(100 ms) is over.
PollerWake ==
    /\ pw.pc = "sleep"
    /\ pw' = [pw EXCEPT !.pc = "loop"]
    /\ UNCHANGED <<phase, blocking, polling, src, agg, bw, hs, hret, startRet>>
    /\ UNCHANGED notLoop

\* tests/actor.rs, enum Message.
Put(n) == [op |-> "Put", n |-> n]
Get == [op |-> "Get", n |-> 0]

\* tests/actor.rs, Collector::handle_event on a message of the actor's
\* input: Put adds to the sum, Get sends the sum to the reply channel.
HandleMessage(h, e) ==
    IF e.v.op = "Put"
    THEN [h EXCEPT !.sum = @ + e.v.n,
                   !.handled[e.s] = Append(@, e.v),
                   !.calls = @ + 1]
    ELSE [h EXCEPT !.reply = Append(@, h.sum),
                   !.handled[e.s] = Append(@, e.v),
                   !.calls = @ + 1]

\* tests/event_loop.rs, TestEventHandler::handle_event: the handler is given
\* e; it adds a payload to its sum and notes a source's error.
Handle(h, e) ==
    IF e.k = "ok"
    THEN IF e.s = InputSrc
         THEN HandleMessage(h, e)
         ELSE [h EXCEPT !.sum = @ + e.v,
                        !.handled[e.s] = Append(@, e.v),
                        !.calls = @ + 1]
    ELSE [h EXCEPT !.errs[e.s] = @ + 1, !.calls = @ + 1]

\* A consumer that drops the handler's error and goes on.
Consume_IgnoresHandlerError ==
    /\ phase = "running"
    /\ agg.buf # <<>>
    /\ LET e == Head(agg.buf)
       IN IF e.k = "none"
          THEN UNCHANGED <<hs, hret>>
          ELSE \E r \in {"ok"} \cup HandlerErrs :
                  /\ hs' = Handle(hs, e)
                  /\ hret' = r
    /\ agg' = [agg EXCEPT !.buf = Tail(@)]
    /\ UNCHANGED <<phase, startRet, blocking, polling, src, bw, pw>>
    /\ UNCHANGED notLoop

\* start_sync, lines 105-109: one turn of the event loop with an item in the
\* channel: a None is skipped, an event is handled, and the handler's error
\* is returned with `?` (the aggregator is dropped with the frame).
Consume ==
    /\ phase = "running"
    /\ agg.buf # <<>>
    /\ LET e == Head(agg.buf)
       IN IF e.k = "none"
          THEN /\ agg' = [agg EXCEPT !.buf = Tail(@)]
               /\ UNCHANGED <<phase, hs, hret, startRet>>
          ELSE \E r \in {"ok"} \cup HandlerErrs :
                  /\ hs' = Handle(hs, e)
                  /\ hret' = r
                  /\ IF r = "ok"
                     THEN /\ agg' = [agg EXCEPT !.buf = Tail(@)]
                          /\ UNCHANGED <<phase, startRet>>
                     ELSE /\ phase' = "returned"
                          /\ startRet' = [k |-> "err", r |-> r]
                          /\ agg' = [agg EXCEPT !.buf = <<>>, !.rx = FALSE,
                                                !.dropped = Len(agg.buf) - 1]
    /\ UNCHANGED <<blocking, polling, src, bw, pw>>
    /\ UNCHANGED notLoop

\* start_sync, line 107: aggregator.recv() fails once the channel is empty
\* and every sender is gone; start_sync returns Ok(handler).
ConsumeEnd ==
    /\ phase = "running"
    /\ agg.buf = <<>>
    /\ LiveSenders = {}
    /\ phase' = "returned"
    /\ startRet' = [k |-> "ok", r |-> "handler"]
    /\ agg' = [agg EXCEPT !.rx = FALSE]
    /\ UNCHANGED <<blocking, polling, src, bw, pw, hs, hret>>
    /\ UNCHANGED notLoop

LoopInit ==
    /\ phase = "assembling"
    /\ blocking = <<>>
    /\ polling = <<>>
    /\ src = [s \in AllSrcs |-> NoSource]
    /\ agg = [buf |-> <<>>, cap |-> 0, rx |-> FALSE, dropped |-> 0]
    /\ bw = [s \in Srcs |-> IdleWorker]
    /\ pw = IdlePoller
    /\ hs = [sum |-> 0, handled |-> [s \in AllSrcs |-> <<>>],
             errs |-> [s \in AllSrcs |-> 0], calls |-> 0, reply |-> <<>>]
    /\ hret = "none"
    /\ startRet = [k |-> "none", r |-> "none"]

LoopNext ==
    \/ \E s \in Srcs, lim \in 0 .. MaxEvents : AddBlockingSource(s, lim)
    \/ \E s \in Srcs, lim \in 0 .. MaxEvents : AddPollingSource(s, lim)
    \/ Start
    \/ \E s \in Srcs : BlockingWait(s)
    \/ \E s \in Srcs : BlockingSend(s)
    \/ PollerLoop
    \/ PollerPoll
    \/ PollerSend
    \/ PollerSweepEnd
    \/ PollerWake
    \/ Consume
    \/ ConsumeEnd

(***************************************************************************)
(* event_loop.rs: start_actor                                              *)
(***************************************************************************)
NoActor == [name |-> "-", ret |-> "none", unreg |-> "none"]

\* A start_actor that drops the result of register and goes on.
ActorRegister_IgnoresError(n) ==
    /\ phase = "assembling"
    /\ mutex = "free"
    /\ IF n \in DOMAIN pool
       THEN /\ ret' = "ExistsAlready"
            /\ UNCHANGED <<pool, regd>>
       ELSE /\ ret' = "Ok"
            /\ pool' = Insert(n, [chan |-> ActorChan, ty |-> ChanType[ActorChan]])
            /\ regd' = [regd EXCEPT ![n] = Append(@, ActorChan)]
    /\ chan' = [chan EXCEPT ![ActorChan] = [buf |-> <<>>, rx |-> TRUE]]
    /\ actor' = [name |-> n, ret |-> "none", unreg |-> "none"]
    /\ phase' = "actor"
    /\ UNCHANGED <<blocking, polling, mutex, rt, client>>
    /\ UNCHANGED <<src, agg, bw, pw, hs, hret, startRet>>
    /\ UNCHANGED <<busVars, queueVars, lazyVars>>

\* start_actor, lines 128-129: the channel is made and its Sender is
\* registered under n (register, under the mutex); on ExistsAlready
\* start_actor returns the error and the loop, with its sources, is dropped.
ActorRegister(n) ==
    /\ phase = "assembling"
    /\ mutex = "free"
    /\ IF n \in DOMAIN pool
       THEN /\ ret' = "ExistsAlready"
            /\ actor' = [name |-> n, ret |-> "ExistsAlready", unreg |-> "none"]
            /\ phase' = "rejected"
            /\ blocking' = <<>>
            /\ polling' = <<>>
            /\ UNCHANGED <<pool, chan, regd>>
       ELSE /\ ret' = "Ok"
            /\ pool' = Insert(n, [chan |-> ActorChan, ty |-> ChanType[ActorChan]])
            /\ regd' = [regd EXCEPT ![n] = Append(@, ActorChan)]
            /\ chan' = [chan EXCEPT ![ActorChan] = [buf |-> <<>>, rx |-> TRUE]]
            /\ actor' = [name |-> n, ret |-> "none", unreg |-> "none"]
            /\ phase' = "actor"
            /\ UNCHANGED <<blocking, polling>>
    /\ UNCHANGED <<mutex, rt, client>>
    /\ UNCHANGED <<src, agg, bw, pw, hs, hret, startRet>>
    /\ UNCHANGED <<busVars, queueVars, lazyVars>>

\* start_actor, lines 132-143: the input source is added as the last polling
\* source, the thread is spawned and start_actor returns Ok; the thread
\* enters start_sync (lines 93-102).
ActorSpawn ==
    /\ phase = "actor"
    /\ phase' = "running"
    /\ actor' = [actor EXCEPT !.ret = "Ok"]
    /\ src' = [src EXCEPT ![InputSrc].kind = "mpsc"]
    /\ agg' = [buf |-> <<>>, cap |-> Len(blocking) + Len(polling) + 1,
               rx |-> TRUE, dropped |-> 0]
    /\ bw' = [s \in Srcs |->
                IF \E i \in DOMAIN blocking : blocking[i] = s
                THEN [pc |-> "wait", ev |-> NoEvent, stop |-> FALSE]
                ELSE IdleWorker]
    /\ pw' = [pc |-> "loop", sources |-> Append(polling, InputSrc), left |-> 0,
              had |-> FALSE, ev |-> NoEvent]
    /\ blocking' = <<>>
    /\ polling' = <<>>
    /\ UNCHANGED <<hs, hret, startRet, client>>
    /\ UNCHANGED <<busVars, poolVars, queueVars, lazyVars>>

\* An actor thread that unregisters only after start_sync returned Ok.
ActorUnregister_OnlyOnOk ==
    /\ phase = "returned"
    /\ startRet.k = "ok"
    /\ actor.ret = "Ok"
    /\ actor.unreg = "none"
    /\ mutex = "free"
    /\ pool' = UnregisterMap(actor.name)
    /\ ret' = UnregisterResult(actor.name)
    /\ regd' = IF ret' = "Ok" THEN [regd EXCEPT ![actor.name] = <<>>] ELSE regd
    /\ actor' = [actor EXCEPT !.unreg = ret']
    /\ UNCHANGED <<chan, mutex, rt, client>>
    /\ UNCHANGED <<busVars, loopVars, queueVars, lazyVars>>

\* start_actor, line 141: start_sync has returned in the actor's thread,
\* which calls ActorPool::unregister(name) and drops the result.
ActorUnregister ==
    /\ phase = "returned"
    /\ actor.ret = "Ok"
    /\ actor.unreg = "none"
    /\ mutex = "free"
    /\ pool' = UnregisterMap(actor.name)
    /\ ret' = UnregisterResult(actor.name)
    /\ regd' = IF ret' = "Ok" THEN [regd EXCEPT ![actor.name] = <<>>] ELSE regd
    /\ actor' = [actor EXCEPT !.unreg = ret']
    /\ UNCHANGED <<chan, mutex, rt, client>>
    /\ UNCHANGED <<busVars, loopVars, queueVars, lazyVars>>

\* tests/actor.rs, test_ok: what the caller sends, in order.
ClientScript == [i \in 1 .. (MaxPuts + 1) |-> IF i <= MaxPuts THEN Put(i - 1) ELSE Get]

\* tests/actor.rs, lines 38 and 42: the caller's next ActorPool::send to the
\* actor's name; an error ends the caller.
ClientSend ==
    /\ actor.ret = "Ok"
    /\ client.err = "none"
    /\ client.sent < Len(ClientScript)
    /\ mutex = "free"
    /\ ret' = SendResult(actor.name, ChanType[ActorChan])
    /\ IF ret' = "Ok"
       THEN /\ Len(chan[pool[actor.name].chan].buf) < MaxChanLen
            /\ chan' = [chan EXCEPT ![pool[actor.name].chan].buf =
                                        Append(@, ClientScript[client.sent + 1])]
            /\ client' = [client EXCEPT !.sent = @ + 1]
       ELSE /\ client' = [client EXCEPT !.err = ret']
            /\ UNCHANGED chan
    /\ UNCHANGED <<pool, mutex, rt, regd, actor>>
    /\ UNCHANGED <<busVars, loopVars, queueVars, lazyVars>>

ActorInit ==
    /\ actor = NoActor
    /\ client = [sent |-> 0, err |-> "none"]

\* An actor started under the name "a" with at most one source besides its
\* input (one that reports its error when first asked), a caller, and other
\* threads that register and unregister "a".
ActorNext ==
    \/ AddBlockingSource("s1", 0)
    \/ AddPollingSource("s1", 0)
    \/ ActorRegister("a")
    \/ ActorSpawn
    \/ BlockingWait("s1")
    \/ BlockingSend("s1")
    \/ PollerLoop
    \/ PollerPoll
    \/ PollerSend
    \/ PollerSweepEnd
    \/ PollerWake
    \/ Consume
    \/ ConsumeEnd
    \/ ActorUnregister
    \/ ClientSend
    \/ RegisterLock("r1", "c1", "a")
    \/ RegisterCheck("r1")
    \/ RegisterFinish("r1")
    \/ Unregister("a")

Init ==
    BusInit /\ PoolInit /\ LoopInit /\ ActorInit /\ QueueInit /\ LazyInit

SpecBus == Init /\ [][BusNext]_vars

\* The bus with its handles cloned and released.
OwnNext ==
    \/ NewSubscriber(Backlog)
    \/ \E u \in Uids : DropSubscriber(u)
    \/ \E u \in Uids : Read(u)
    \/ \E p \in Pubs : PublishLock(p, "t1", "m1")
    \/ \E p \in Pubs, u \in Uids : PublishStep(p, u)
    \/ \E p \in Pubs : PublishReturn(p)
    \/ \E t \in Topics, u \in Uids : Subscribe(t, u)
    \/ \E t \in Topics, u \in Uids : Unsubscribe(t, u)
    \/ ShrinkToFit
    \/ CloneDispatch
    \/ DropDispatch

SpecOwn == Init /\ [][OwnNext]_vars

SpecPool == Init /\ [][PoolNext]_vars

SpecLoop == Init /\ [][LoopNext]_vars

\* A call of wait / poll on source s that returns an event or the error.
BlockingEvent(s) == BlockingWait(s) /\ bw'[s].ev.k # "none"
PollerEvent(s) ==
    /\ PollerPoll
    /\ pw.sources # <<>>
    /\ Head(pw.sources) = s
    /\ pw'.ev.k # "none"

\* Fair scheduling of the threads of a started loop. The worker threads and
\* the consumer keep running; when again and again some send finds room, a
\* send gets through; when again and again some source is asked, a source
\* answers with an event or its error (no source answers None forever).
LoopFairness ==
    /\ SF_vars(\E s \in Srcs : BlockingEvent(s) \/ PollerEvent(s))
    /\ SF_vars(PollerSend \/ \E s \in Srcs : BlockingSend(s))
    /\ WF_vars(PollerLoop)
    /\ WF_vars(PollerSweepEnd)
    /\ WF_vars(PollerWake)
    /\ WF_vars(Consume)
    /\ WF_vars(ConsumeEnd)

SpecLoopFair == Init /\ [][LoopNext]_vars /\ LoopFairness

\* The workers run on: every call of wait and poll returns, a send returns
\* once it can, the sleep ends. Nothing is asked of the consumer.
WorkerFairness ==
    /\ \A s \in Srcs : WF_vars(BlockingWait(s)) /\ WF_vars(BlockingSend(s))
    /\ WF_vars(PollerLoop) /\ WF_vars(PollerPoll) /\ WF_vars(PollerSend)
    /\ WF_vars(PollerSweepEnd) /\ WF_vars(PollerWake)

SpecLoopWorkers == Init /\ [][LoopNext]_vars /\ WorkerFairness

SpecActor == Init /\ [][ActorNext]_vars

\* The actor's thread keeps running and gets the mutex when it is free again
\* and again; a thread inside register goes on to release the mutex.
ActorFairness ==
    /\ SF_vars(ActorUnregister)
    /\ WF_vars(RegisterCheck("r1"))
    /\ WF_vars(RegisterFinish("r1"))

SpecActorFair == Init /\ [][ActorNext]_vars /\ ActorFairness

SpecQueue == Init /\ [][QueueNext]_vars

SpecLazy == Init /\ [][LazyNext]_vars

(***************************************************************************)
(* The bus and the registry together: every operation of both, called by  *)
(* threads that interleave freely. A call made from inside a handler is a  *)
(* call of the event loop's thread, which holds no lock while it handles.  *)
(***************************************************************************)
CoreNext ==
    \/ \E b \in Backlogs : NewSubscriber(b)
    \/ \E u \in Uids : DropSubscriber(u)
    \/ \E p \in Pubs : PublishLock(p, "t1", "m1")
    \/ \E p \in Pubs, u \in Uids : PublishStep(p, u)
    \/ \E p \in Pubs : PublishReturn(p)
    \/ \E p \in Pubs : TopicsLock(p)
    \/ \E p \in Pubs : TopicsReturn(p)
    \/ \E u \in Uids : Subscribe("t1", u)
    \/ \E u \in Uids : Unsubscribe("t1", u)
    \/ ShrinkToFit
    \/ \E t \in RegThreads : RegisterLock(t, "c1", "a")
    \/ \E t \in RegThreads : RegisterCheck(t)
    \/ \E t \in RegThreads : RegisterFinish(t)
    \/ Unregister("a")
    \/ Send("a", "T1", "m1")
    \/ RegisteredList
    \/ DropReceiver("c1")

SpecCore == Init /\ [][CoreNext]_vars

(***************************************************************************)
(* A publisher with a subscriber whose queue takes more than one message,  *)
(* next to an event loop with a blocking and a polling source.             *)
(***************************************************************************)
FifoNext ==
    \/ NewSubscriber(Backlog + 1)
    \/ Subscribe("t1", 0)
    \/ \E p \in Pubs, m \in Msgs : PublishLock(p, "t1", m)
    \/ \E p \in Pubs, u \in Uids : PublishStep(p, u)
    \/ \E p \in Pubs : PublishReturn(p)
    \/ Read(0)
    \/ AddBlockingSource("s1", MaxEvents)
    \/ AddPollingSource("s2", MaxEvents)
    \/ Start
    \/ BlockingWait("s1")
    \/ BlockingSend("s1")
    \/ PollerLoop
    \/ PollerPoll
    \/ PollerSend
    \/ PollerSweepEnd
    \/ PollerWake
    \/ Consume
    \/ ConsumeEnd

SpecFifo == Init /\ [][FifoNext]_vars

(***************************************************************************)
(* Claims about the bus                                                    *)
(***************************************************************************)
\* S is subscribed to T: subscribe(T,S) has returned with no unsubscribe(T,S)
\* since, and S has not been released.
Subscribed(t, u) == <<t, u>> \in subd /\ sub[u] = "live"

\* S's queue can take one more element: S is not released and its buffer
\* holds fewer elements than its backlog limit.
HasRoom(u) == sub[u] = "live" /\ Len(queue[u].buf) < queue[u].limit

\* The steps of a publish call of thread p, read off its position: it takes
\* the read lock, it visits entry u, it returns.
Locks(p) == pub[p].pc = "idle" /\ pub'[p].pc = "iter"
Visits(p, u) ==
    /\ pub[p].pc = "iter" /\ pub'[p].pc = "iter"
    /\ u \in pub[p].todo /\ u \notin pub'[p].todo
Returns(p) == pub[p].pc = "iter" /\ pub'[p].pc = "idle"

C2_NoDeliveryAfterUnsubscribe ==
    [][/\ \A u \in Uids :
             Len(queue'[u].buf) > Len(queue[u].buf) =>
                \E p \in Pubs : Visits(p, u) /\ <<pub[p].topic, u>> \in subd
       /\ \A t \in Topics, u \in Uids :
             (<<t, u>> \in subd /\ <<t, u>> \notin subd') =>
                /\ u \notin DOMAIN topics'[t]
                /\ \A t2 \in DOMAIN topics :
                      /\ t2 \in DOMAIN topics'
                      /\ \A u2 \in DOMAIN topics[t2] :
                            <<t2, u2>> # <<t, u>> =>
                               /\ u2 \in DOMAIN topics'[t2]
                               /\ topics'[t2][u2] = topics[t2][u2]
      ]_vars

\* C2 witness: the only subscriber S ever created has unsubscribed from T
\* (T's entry is still in the map, now empty: only unsubscribe leaves such an
\* entry); a publish on T that took the lock afterwards has finished its
\* loop and S's queue, which has room, is empty.
C2_Witness ==
    \E p \in Pubs, u \in Uids :
        /\ pub[p].pc = "iter" /\ pub[p].todo = {}
        /\ sub[u] = "live" /\ <<pub[p].topic, u>> \notin subd
        /\ \A v \in Uids \ {u} : sub[v] = "none"
        /\ pub[p].topic \in DOMAIN topics
        /\ DOMAIN topics[pub[p].topic] = {}
        /\ queue[u].buf = <<>>

\* C3: shrink_to_fit removes exactly the subscriptions whose writer reports
\* disconnected (those of released subscribers) and then exactly the topics
\* left without a subscription; it adds nothing; after it the topic list is
\* the set of topics that had a subscription of a subscriber not released.
C3_ShrinkToFit ==
    [][ShrinkToFit =>
        /\ \A t \in DOMAIN topics : \A u \in DOMAIN topics[t] :
              (t \in DOMAIN topics' /\ u \in DOMAIN topics'[t])
                 <=> ~WriterDisconnected(queue[topics[t][u]])
        /\ \A t \in DOMAIN topics' :
              /\ t \in DOMAIN topics
              /\ DOMAIN topics'[t] # {}
              /\ \A u \in DOMAIN topics'[t] :
                    /\ u \in DOMAIN topics[t]
                    /\ topics'[t][u] = topics[t][u]
                    /\ sub[u] = "live"
        /\ DOMAIN topics' =
              {t \in DOMAIN topics : \E u \in DOMAIN topics[t] : sub[u] = "live"}
      ]_vars

\* C3 witness: a released subscriber that was subscribed to two topics has
\* been removed from both; the topic it shared with a live subscriber is
\* still listed, the other one is gone.
C3_Witness ==
    \E t \in Topics, t2 \in Topics, u \in Uids, v \in Uids :
        /\ sub[u] = "dropped" /\ sub[v] = "live"
        /\ <<t, u>> \in subd /\ <<t2, u>> \in subd
        /\ t # t2
        /\ t \in DOMAIN topics /\ DOMAIN topics[t] = {v}
        /\ t2 \notin DOMAIN topics

\* The subscriptions of topic t that deliver to subscriber u: the entries of
\* t's map that hold u's writer.
EntriesOf(t, u) ==
    IF t \in DOMAIN topics
    THEN {x \in DOMAIN topics[t] : topics[t][x] = u}
    ELSE {}

\* The entries of topic t's map.
EntriesOfTopic(t) == IF t \in DOMAIN topics THEN DOMAIN topics[t] ELSE {}

\* C18: while S is subscribed to T, however often subscribe(T,S) was called,
\* the topic map holds exactly one subscription for S under T; a subscribe
\* of a subscribed S changes nothing; a publish on T finds exactly one entry
\* for S and adds at most one copy to S's queue in a step; an unsubscribe(T,S)
\* leaves no entry for S under T, so that the next publish has none to visit.
C18_SubscribeIdempotent ==
    /\ [](\A t \in Topics, u \in Uids :
             Subscribed(t, u) => Cardinality(EntriesOf(t, u)) = 1)
    /\ [][/\ \A t \in Topics, u \in Uids :
                (Subscribe(t, u) /\ Subscribed(t, u)) => topics' = topics
          /\ \A p \in Pubs, u \in Uids :
                Locks(p) =>
                   LET t == pub'[p].topic
                       found == {x \in pub'[p].todo : topics[t][x] = u}
                   IN Cardinality(found) = IF Subscribed(t, u) THEN 1
                                           ELSE Cardinality(EntriesOf(t, u))
          /\ \A u \in Uids : Len(queue'[u].buf) <= Len(queue[u].buf) + 1
          /\ \A t \in Topics, u \in Uids :
                (<<t, u>> \in subd /\ <<t, u>> \notin subd')
                   => /\ t \in DOMAIN topics' => EntriesOf(t, u)' = {}
                      /\ t \notin DOMAIN topics' => t \notin DOMAIN topics
         ]_vars

\* C18 witness: the only subscriber S is subscribed to T, T's map holds the
\* one entry of S, and a publish on T has finished its loop with one copy of
\* its message in S's queue.
C18_Witness ==
    \E p \in Pubs, u \in Uids :
        /\ pub[p].pc = "iter" /\ pub[p].todo = {}
        /\ Subscribed(pub[p].topic, u)
        /\ EntriesOf(pub[p].topic, u) = {u}
        /\ DOMAIN topics[pub[p].topic] = {u}
        /\ \A v \in Uids \ {u} : sub[v] = "none"
        /\ queue[u].buf = <<pub[p].msg>>

\* C19: unsubscribe(T,S) leaves the topic map as it is when T has no entry or
\* S has none under T; it never removes a topic, so the topic list is the
\* same after it, and only shrink_to_fit takes a topic off the list; every
\* subscription other than that of S under T is left as it is.
C19_UnsubscribeFrame ==
    [][/\ \A t \in Topics, u \in Uids :
             Unsubscribe(t, u) =>
                /\ TopicList' = TopicList
                /\ (t \notin DOMAIN topics \/ u \notin DOMAIN topics[t])
                      => topics' = topics
                /\ \A t2 \in DOMAIN topics : \A u2 \in DOMAIN topics[t2] :
                      <<t2, u2>> # <<t, u>> =>
                         /\ u2 \in DOMAIN topics'[t2]
                         /\ topics'[t2][u2] = topics[t2][u2]
                /\ \A t2 \in DOMAIN topics :
                      DOMAIN topics'[t2] \subseteq DOMAIN topics[t2]
       /\ ~(TopicList \subseteq TopicList') => ShrinkToFit
      ]_vars

\* C19 witness: S has unsubscribed from T as its last subscriber and T is
\* still listed, with an empty map; S's subscription under the other topic is
\* in place.
C19_Witness ==
    \E t \in Topics, t2 \in Topics, u \in Uids :
        /\ t # t2
        /\ sub[u] = "live"
        /\ <<t, u>> \notin subd
        /\ t \in TopicList /\ DOMAIN topics[t] = {}
        /\ Subscribed(t2, u) /\ EntriesOf(t2, u) = {u}
        /\ \A p \in Pubs : pub[p].pc = "idle"

\* C20: a publish that holds the read lock can always take its next step, a
\* visit or the return, whatever the state of the queues; a visit of a
\* subscriber whose queue is full or who is released leaves the buffers as
\* they are and the other entries still to be visited; no step of publish
\* changes the topic map; a publish on a topic without an entry visits nobody;
\* a message enters a queue only in a visit of the publish that carries it,
\* no entry joins a publish after it took the lock, and a publish that has
\* returned keeps nothing to deliver.
C20_PublishBestEffort ==
    /\ [](\A p \in Pubs :
             /\ pub[p].pc = "iter" =>
                   IF pub[p].todo = {}
                   THEN ENABLED PublishReturn(p)
                   ELSE \A u \in pub[p].todo : ENABLED PublishStep(p, u)
             /\ pub[p].pc = "idle" => pub[p] = IdlePub)
    /\ [][/\ \A p \in Pubs :
                /\ \A u \in Uids :
                      (Visits(p, u) /\ ~HasRoom(u)) =>
                         /\ \A v \in Uids : queue'[v].buf = queue[v].buf
                         /\ pub'[p].todo = pub[p].todo \ {u}
                /\ (Locks(p) \/ Returns(p) \/ pub[p].pc = "iter")
                      => topics' = topics
                /\ (Locks(p) /\ pub'[p].topic \notin DOMAIN topics)
                      => pub'[p].todo = {} /\ queue' = queue
                /\ Locks(p) => pub'[p].todo \subseteq EntriesOfTopic(pub'[p].topic)
                /\ (pub[p].pc = "iter" /\ pub'[p].pc = "iter")
                      => pub'[p].todo \subseteq pub[p].todo
                /\ Returns(p) => pub[p].todo = {} /\ queue' = queue
          /\ \A u \in Uids :
                Len(queue'[u].buf) > Len(queue[u].buf) =>
                   \E p \in Pubs :
                      /\ Visits(p, u)
                      /\ queue'[u].buf = Append(queue[u].buf, pub[p].msg)
         ]_vars

\* C20 witness: a publish has finished its loop over a topic with two
\* entries: that of a released subscriber, still in the map, and that of a
\* subscriber who holds the message.
C20_Witness ==
    \E p \in Pubs, u \in Uids, v \in Uids :
        /\ pub[p].pc = "iter" /\ pub[p].todo = {}
        /\ sub[u] = "dropped" /\ u # v
        /\ EntriesOfTopic(pub[p].topic) = {u, v}
        /\ Subscribed(pub[p].topic, v)
        /\ queue[v].buf = <<pub[p].msg>>

(***************************************************************************)
(* Claims about the actor pool                                             *)
(***************************************************************************)
\* Name n is registered: a register(n) returned Ok and no unregister(n) has
\* returned Ok since. First(n) is the channel of that register call.
Registered(n) == regd[n] # <<>>
First(n) == regd[n][1]

\* C4: a register call that finishes on a name that is registered returns
\* ExistsAlready and changes neither the map nor any channel; every entry of
\* the map is bound to the channel of the first successful register of its
\* name; a send that returns Ok appends its message to that channel.
C4_RegisterExisting ==
    [][/\ \A t \in RegThreads :
             (RegisterFinish(t) /\ Registered(rt[t].name)) =>
                (ret' = "ExistsAlready" /\ pool' = pool /\ chan' = chan)
       /\ \A n \in DOMAIN pool' :
             Registered(n)' /\ pool'[n].chan = First(n)'
       /\ \A n \in Names, ty \in Types, m \in Msgs :
             (Send(n, ty, m) /\ ret' = "Ok") =>
                (Registered(n)
                   /\ chan'[First(n)].buf = Append(chan[First(n)].buf, m))
      ]_vars

\* C4 witness: "a" was registered with c1, a register of c2 under "a" has
\* returned ExistsAlready, and "a" is still bound to c1.
C4_Witness ==
    /\ ret = "ExistsAlready"
    /\ regd["a"] = <<"c1">>
    /\ "a" \in DOMAIN pool /\ pool["a"].chan = "c1"
    /\ \A t \in RegThreads : rt[t].pc = "idle"
    /\ "b" \notin DOMAIN pool /\ regd["b"] = <<>>

\* C5: send(n, ..) and unregister(n) return NotFound when n is not
\* registered, and change nothing then; unregister(n) of a registered n
\* returns Ok, removes n and leaves every other entry as it is.
C5_NotFound ==
    [][/\ \A n \in Names, ty \in Types, m \in Msgs :
             (Send(n, ty, m) /\ ~Registered(n)) =>
                (ret' = "NotFound" /\ pool' = pool /\ chan' = chan)
       /\ \A n \in Names :
             Unregister(n) =>
                IF Registered(n)
                THEN /\ ret' = "Ok"
                     /\ DOMAIN pool' = DOMAIN pool \ {n}
                     /\ \A x \in DOMAIN pool' : pool'[x] = pool[x]
                     /\ chan' = chan
                ELSE ret' = "NotFound" /\ pool' = pool /\ chan' = chan
      ]_vars

\* C5 witness: a call returned NotFound after c1, through which a message
\* was sent, has been unregistered, while "b" is still registered with c2.
C5_Witness ==
    /\ ret = "NotFound"
    /\ DOMAIN pool = {"b"} /\ pool["b"].chan = "c2"
    /\ regd["a"] = <<>>
    /\ chan["c1"].buf # <<>>

\* C6: a send of a message of type ty to a registered name whose endpoint was
\* registered with another element type returns TypeMismatch and changes
\* neither the channels nor the map; the type of an entry is the type of the
\* channel it was registered with, as long as the entry exists.
C6_TypeMismatch ==
    [][/\ \A n \in Names, ty \in Types, m \in Msgs :
             (Send(n, ty, m) /\ Registered(n) /\ ChanType[First(n)] # ty) =>
                (ret' = "TypeMismatch" /\ chan' = chan /\ pool' = pool)
       /\ \A n \in DOMAIN pool' :
             Registered(n)' /\ pool'[n].ty = ChanType[First(n)']
       /\ \A n \in DOMAIN pool \cap DOMAIN pool' : pool'[n] = pool[n]
      ]_vars

\* C6 witness: a send to the registered "a" returned TypeMismatch.
C6_Witness ==
    /\ ret = "TypeMismatch"
    /\ "a" \in DOMAIN pool
    /\ "b" \notin DOMAIN pool
    /\ \A c \in Chans : chan[c].buf = <<>> /\ chan[c].rx

\* C7: a send of a message of the registered type to a registered name
\* returns EndpointNotConnected when the channel's receiver has been
\* released, and changes nothing (the entry stays); otherwise it returns Ok
\* and appends the message to the channel, and only to it.
C7_SendConnected ==
    [][\A n \in Names, ty \in Types, m \in Msgs :
          (Send(n, ty, m) /\ Registered(n) /\ ChanType[First(n)] = ty) =>
             /\ pool' = pool
             /\ IF ~chan[First(n)].rx
                THEN ret' = "EndpointNotConnected" /\ chan' = chan
                ELSE /\ ret' = "Ok"
                     /\ chan' = [chan EXCEPT ![First(n)].buf = Append(@, m)]
      ]_vars

\* C7 witness: a send to the registered "a", whose receiver is released,
\* returned EndpointNotConnected, after a send to "b" was delivered.
C7_Witness ==
    /\ ret = "EndpointNotConnected"
    /\ "a" \in DOMAIN pool /\ ~chan[pool["a"].chan].rx
    /\ "b" \in DOMAIN pool /\ chan[pool["b"].chan].buf # <<>>

\* C8: in every state reached, for every name at most one register call has
\* returned Ok since the last unregister of that name returned Ok, and the
\* name has an entry exactly when there is such a call; a register call
\* returns Ok when the name is not registered and ExistsAlready when it is.
C8_OneEntryPerName ==
    [][/\ \A n \in Names :
             /\ Len(regd'[n]) <= 1
             /\ n \in DOMAIN pool' <=> Len(regd'[n]) = 1
       /\ \A t \in RegThreads :
             RegisterFinish(t) =>
                ret' = IF Registered(rt[t].name) THEN "ExistsAlready" ELSE "Ok"
      ]_vars

\* C8 witness: r1's register of "a" returned Ok and r2, which asked for the
\* same name, has found it taken.
C8_Witness ==
    /\ regd["a"] = <<"c1">>
    /\ rt["r2"].pc = "insert" /\ rt["r2"].name = "a" /\ rt["r2"].found
    /\ rt["r2"].chan = "c2"
    /\ ret = "Ok"

(***************************************************************************)
(* Claims on the event loop (SpecLoop)                                     *)
(***************************************************************************)
\* What a source with this counter and limit yields when it is run to its
\* terminal error: the sum of its payloads, and the payloads in order.
RECURSIVE RunSum(_, _)
RunSum(counter, limit) ==
    IF counter = limit THEN 0 ELSE counter + RunSum(counter + 1, limit)

RunPayloads(limit) == [i \in 1 .. limit |-> i - 1]

RECURSIVE SequentialSum(_)
SequentialSum(S) ==
    IF S = {} THEN 0
    ELSE LET s == CHOOSE x \in S : TRUE
         IN RunSum(0, src[s].limit) + SequentialSum(S \ {s})

\* The invocations of the handler for the sources run to completion: one per
\* event and one per terminal error.
RECURSIVE SequentialCallsOver(_)
SequentialCallsOver(S) ==
    IF S = {} THEN 0
    ELSE LET s == CHOOSE x \in S : TRUE
         IN (IF src[s].kind = "none" THEN 0 ELSE src[s].limit + 1)
               + SequentialCallsOver(S \ {s})

SequentialCalls == SequentialCallsOver(Srcs)

IsPrefix(a, b) ==
    /\ Len(a) <= Len(b)
    /\ \A i \in 1 .. Len(a) : a[i] = b[i]

\* C9: when start returns normally (its handler never returned an error),
\* every source has run to its terminal error, the handler was given, once
\* each, exactly the payloads the source produced and the one terminal error
\* of every source, and its sum is the sum of the sources run one after the
\* other; at no time was the handler given a payload twice or one that was
\* not produced.
C9_EveryEventHandledOnce ==
    /\ \A s \in Srcs :
          /\ Len(hs.handled[s]) <= src[s].counter
          /\ IsPrefix(hs.handled[s], RunPayloads(src[s].limit))
          /\ hs.errs[s] <= 1
    /\ startRet.k = "ok" =>
          /\ \A s \in Srcs :
                /\ src[s].counter = src[s].limit
                /\ hs.handled[s] = RunPayloads(src[s].limit)
                /\ hs.errs[s] = IF src[s].kind = "none" THEN 0 ELSE 1
          /\ hs.sum = SequentialSum(Srcs)
          /\ hs.calls = SequentialCalls

\* start returned normally from a blocking and a polling source that both
\* produced two events.
C9_Witness ==
    /\ startRet.k = "ok"
    /\ \E b, p \in Srcs :
          /\ src[b].kind = "blocking" /\ src[b].limit = 2
          /\ src[p].kind = "polling" /\ src[p].limit = 2
    /\ hs.sum = 2
    /\ hs.calls = 6

\* C10: an invocation of the handler that returns a fatal error ends start
\* in the same step with exactly that error as its result; once start has
\* returned, the handler is not invoked again and the result stays.
C10_HandlerErrorStops ==
    [][ /\ (hs'.calls # hs.calls /\ hret' \in HandlerErrs) =>
              /\ phase' = "returned"
              /\ startRet' = [k |-> "err", r |-> hret']
        /\ phase = "returned" =>
              /\ hs' = hs
              /\ hret' = hret
              /\ startRet' = startRet
              /\ phase' = "returned"
        /\ startRet'.k = "err" => startRet'.r = hret' ]_vars

\* start returned the handler's error while items were in the channel and
\* workers were alive, one of them holding an event.
C10_Witness ==
    /\ startRet.k = "err"
    /\ startRet.r = "fatal2"
    /\ agg.dropped > 0
    /\ \E s \in Srcs : bw[s].pc = "send" /\ bw[s].ev.k = "ok"
    /\ pw.pc \in {"loop", "poll", "send", "sleep"}

\* C11: a started loop whose handler never returns an error returns
\* normally, with the handler, once every source has reported its error (a
\* loop without sources at once); start returns an error only when the
\* handler returned one, and a loop that returned normally has passed every
\* source's error to the handler.
C11_StartReturns ==
    /\ (phase = "running") ~> (startRet.k = "ok" \/ hret \in HandlerErrs)
    /\ [](startRet.k = "err" => hret \in HandlerErrs)
    /\ [](startRet.k = "ok" =>
            /\ startRet.r = "handler"
            /\ \A s \in Srcs : src[s].kind # "none" => hs.errs[s] = 1)

\* start returned normally after a blocking and a polling source reported
\* their errors, which the handler was given.
C11_Witness ==
    /\ startRet.k = "ok"
    /\ \E b, p \in Srcs :
          /\ src[b].kind = "blocking" /\ hs.errs[b] = 1
          /\ src[p].kind = "polling" /\ hs.errs[p] = 1
    /\ hret = "ok"

(***************************************************************************)
(* Claims on actors (SpecActor)                                            *)
(***************************************************************************)
\* The step of start_actor that calls register.
Registers == phase = "assembling" /\ phase' # "assembling"

\* C12: a start_actor whose register finds the name registered returns
\* ExistsAlready and leaves the registry and every channel as they are; of
\* the rejected loop no worker is ever started, so none of its sources is
\* waited on or polled, and its handler is never invoked.
C12_RejectedActorNeverRuns ==
    [][/\ Registers =>
             IF Registered(actor'.name)
             THEN /\ phase' = "rejected"
                  /\ actor'.ret = "ExistsAlready"
                  /\ pool' = pool /\ chan' = chan /\ regd' = regd
             ELSE phase' = "actor"
       /\ phase = "rejected" =>
             /\ phase' = "rejected"
             /\ actor' = actor
             /\ <<src, agg, bw, pw, hs, hret, startRet>>'
                   = <<src, agg, bw, pw, hs, hret, startRet>>
       /\ phase' = "rejected" =>
             /\ \A s \in Srcs : bw'[s].pc = "none" /\ src'[s].counter = 0
             /\ pw'.pc = "none"
             /\ hs'.calls = 0
             /\ agg'.buf = <<>>
      ]_vars

\* start_actor on "a", registered with c1 before, was rejected; the loop had
\* a source; "a" is still bound to c1.
C12_Witness ==
    /\ phase = "rejected"
    /\ actor.ret = "ExistsAlready"
    /\ src["s1"].kind # "none"
    /\ "a" \in DOMAIN pool /\ pool["a"].chan = "c1"
    /\ regd["a"] = <<"c1">>

\* C13: once the loop of a started actor has returned, with the handler's
\* error or normally, the actor's thread eventually calls unregister; after
\* that call the name has no entry, and until a register of the name returns
\* Ok a send to it returns NotFound and a register of it returns Ok.
C13_ActorUnregisters ==
    /\ (phase = "returned" /\ actor.ret = "Ok") ~> (actor.unreg # "none")
    /\ [][/\ (actor.unreg = "none" /\ actor'.unreg # "none") =>
                 /\ phase = "returned"
                 /\ actor.name \notin DOMAIN pool'
                 /\ ~Registered(actor.name)'
          /\ (actor.unreg # "none" /\ ~Registered(actor.name)) =>
                 /\ client'.sent = client.sent
                 /\ client'.err # client.err => client'.err = "NotFound"
                 /\ RegisterFinish("r1") => ret' = "Ok"
         ]_vars

\* The loop ended with the handler's error, the actor's thread removed the
\* entry it had made, the caller's next send returned NotFound, and a
\* register of the name succeeded again.
C13_Witness ==
    /\ startRet.k = "err"
    /\ actor.unreg = "Ok"
    /\ client.err = "NotFound"
    /\ "a" \in DOMAIN pool /\ pool["a"].chan = "c1"

\* The sum of the Puts of the caller's script.
PutSum == RunSum(0, MaxPuts)

Released(end) == end \in {"dropping", "gone"}

\* C15: the flag of a queue pair is true exactly when one of its two ends has
\* been released, also when nothing was ever read or written; a try_write that
\* fails with Full, a try_read that finds the queue empty and a read_timeout
\* that times out leave the flag as it is, and a true flag stays true.
C15_FlagIffReleased ==
    /\ qp.flag <=> (Released(qends.wr) \/ Released(qends.rd))
    /\ [][/\ qp'.flag <=> (Released(qends'.wr) \/ Released(qends'.rd))
          /\ qp.flag => qp'.flag
          /\ (QTryWrite /\ qlog'.res = "Full") => qp'.flag = qp.flag
          /\ (QTryRead /\ qlog'.res = "Empty") => qp'.flag = qp.flag
          /\ (QReadTimeoutReturn /\ qlog'.res = "Timeout")
                => qp'.flag = qp.flag
         ]_vars

\* An end was released before anything was read or written, and the flag is
\* true.
C15_Witness ==
    /\ qp.flag
    /\ qlog.op = "new"
    /\ qends.rd = "gone"
    /\ qends.wr = "live"

\* C16 as stated: try_write appends and succeeds when the reader is alive and
\* fewer than limit elements are buffered, fails with Full and changes nothing
\* when the reader is alive and limit elements are buffered, fails with the
\* flag true when the reader is released; the buffer never holds more than
\* limit elements.
C16_TryWriteThreeOutcomes ==
    /\ [](Len(qp.buf) <= qp.limit)
    /\ [][QTryWrite =>
            IF qp.rx /\ Len(qp.buf) < qp.limit
            THEN /\ qlog'.res = "Ok"
                 /\ qp' = [qp EXCEPT !.buf = Append(@, Len(qlog.written) + 1)]
            ELSE IF qp.rx
                 THEN qlog'.res = "Full" /\ qp' = qp
                 ELSE /\ qlog'.res = "Disconnected"
                      /\ qp'.flag
                      /\ qp'.buf = qp.buf
         ]_vars

\* C16, amended: a queue of limit 0 takes an element while its reader waits
\* inside read or read_timeout. try_write appends and succeeds when the reader
\* is alive and either fewer than limit elements are buffered or the limit is
\* 0, nothing is buffered and the reader waits; otherwise with the reader
\* alive it fails with Full and changes nothing; with the reader released it
\* fails with the flag true. The buffer holds at most limit elements, or the
\* one element handed to the waiting reader of a queue of limit 0.
C16_TryWriteOutcomes ==
    /\ [](\/ Len(qp.buf) <= qp.limit
          \/ qp.limit = 0 /\ Len(qp.buf) = 1 /\ qp.waiting)
    /\ [][QTryWrite =>
            IF /\ qp.rx
               /\ \/ Len(qp.buf) < qp.limit
                  \/ qp.limit = 0 /\ qp.buf = <<>> /\ qp.waiting
            THEN /\ qlog'.res = "Ok"
                 /\ qp' = [qp EXCEPT !.buf = Append(@, Len(qlog.written) + 1)]
            ELSE IF qp.rx
                 THEN qlog'.res = "Full" /\ qp' = qp
                 ELSE /\ qlog'.res = "Disconnected"
                      /\ qp'.flag
                      /\ qp'.buf = qp.buf
         ]_vars

\* A try_write on a queue of limit 0 has succeeded: the reader waits and holds
\* the element.
C16_Witness ==
    /\ qp.limit = 0
    /\ qlog.op = "try_write"
    /\ qlog.res = "Ok"
    /\ qp.buf # <<>>

C21_NoDeadlock ==
    /\ \A p \in Pubs :
          /\ pub[p].pc = "iter" =>
                IF pub[p].todo = {}
                THEN ENABLED PublishReturn(p)
                ELSE \A u \in pub[p].todo : ENABLED PublishStep(p, u)
          /\ pub[p].pc = "list" => ENABLED TopicsReturn(p)
          /\ pub[p].pc = "idle" =>
                ENABLED PublishLock(p, "t1", "m1") /\ ENABLED TopicsLock(p)
    /\ \A t \in RegThreads :
          /\ rt[t].pc = "check" => mutex = t /\ ENABLED RegisterCheck(t)
          /\ rt[t].pc = "insert" => mutex = t /\ ENABLED RegisterFinish(t)
          /\ (rt[t].pc = "idle" /\ mutex = "free")
                => ENABLED RegisterLock(t, "c1", "a")
    /\ mutex # "free" => mutex \in RegThreads /\ rt[mutex].pc # "idle"
    /\ mutex = "free" =>
          /\ ENABLED Unregister("a")
          /\ ENABLED RegisteredList
          /\ \/ ENABLED Send("a", "T1", "m1")
             \/ /\ "a" \in DOMAIN pool
                /\ Len(chan[pool["a"].chan].buf) = MaxChanLen
    /\ WriteLockFree =>
          /\ ENABLED ShrinkToFit
          /\ \A u \in Uids :
                sub[u] = "live" =>
                   ENABLED Subscribe("t1", u) /\ ENABLED Unsubscribe("t1", u)

\* C21 witness: a publish holds the read lock with a full queue still to
\* visit while another thread holds the mutex inside register.
C21_Witness ==
    \E p \in Pubs, u \in Uids :
        /\ pub[p].pc = "iter"
        /\ u \in pub[p].todo
        /\ sub[u] = "live"
        /\ Len(queue[u].buf) = queue[u].limit
        /\ mutex \in RegThreads

\* ---------------------------------------------------------------------------
\* The workers of the event loop.

\* The sources the polling worker holds in its deque.
Rotation == {pw.sources[i] : i \in DOMAIN pw.sources}

\* The steps of the workers, read off their positions: the worker of blocking
\* source s calls wait, the polling worker calls poll (on the head of its
\* deque), a worker's send returns.
Waits(s) == bw[s].pc = "wait" /\ bw'[s].pc = "send"
Polls == pw.pc = "poll" /\ pw'.pc = "send"
BlockingSent(s) == bw[s].pc = "send" /\ bw'[s].pc # "send"
PollerSent == pw.pc = "send" /\ pw'.pc # "send"

\* C22: a wait that returns the error sets the worker's stop flag; a worker
\* with the flag set does nothing but send that error, once, and end; a worker
\* that has ended never calls wait again. A poll that returns the error takes
\* the source out of the deque, only the head of the deque is ever polled and
\* no source comes back into the deque. The handler is given the error of a
\* source at most once.
C22_FailedSourceNeverInvoked ==
    /\ [](\A s \in AllSrcs : hs.errs[s] <= 1)
    /\ [][/\ \A s \in Srcs :
                /\ Waits(s) => (bw'[s].stop <=> bw'[s].ev.k = "err")
                /\ bw[s].stop =>
                      \/ bw'[s] = bw[s] /\ src'[s] = src[s]
                      \/ /\ bw'[s] = DoneWorker
                         /\ src'[s] = src[s]
                         /\ IF agg.rx
                            THEN agg'.buf = Append(agg.buf, ErrEvent(s))
                            ELSE agg' = agg
                /\ bw[s].pc = "done" => bw'[s] = bw[s] /\ src'[s] = src[s]
                /\ (src[s].kind = "polling" /\ src'[s] # src[s])
                      => Polls /\ s = Head(pw.sources)
          /\ Polls =>
                /\ pw'.ev.k = "err" =>
                      /\ Head(pw.sources) \notin Rotation'
                      /\ pw'.ev = ErrEvent(Head(pw.sources))
                /\ pw'.ev.k # "err" => Rotation' = Rotation
          /\ phase = "running" => Rotation' \subseteq Rotation
         ]_vars

\* C22 witness: a blocking and a polling source have both returned their
\* error, the handler was given each error once, the blocking worker has
\* ended and the polling source is out of the deque, while the loop runs.
C22_Witness ==
    \E s \in Srcs, t \in Srcs :
        /\ phase = "running"
        /\ src[s].kind = "blocking" /\ bw[s].pc = "done"
        /\ src[t].kind = "polling" /\ t \notin Rotation
        /\ hs.errs[s] = 1 /\ hs.errs[t] = 1
        /\ hs.handled[s] # <<>> /\ hs.handled[t] # <<>>

\* The sources still to be polled in the sweep under way: the first
\* pw.left sources of the deque.
ToPoll == SubSeq(pw.sources, 1, pw.left)

\* C23: a sweep starts with every source of the deque to poll; each turn
\* polls the head of the deque, which is the first source still to poll, and
\* leaves the others to poll as they were, in order, whether the polled
\* source is pushed back or removed; the worker never pops from an empty
\* deque; the sweep ends when nothing is left to poll, with a sleep exactly
\* when no poll of the sweep returned an event or an error; the worker ends
\* once the deque is empty (or when its send fails).
C23_SweepPollsEachOnce ==
    /\ [](/\ pw.pc # "panic"
          /\ pw.pc \in {"poll", "send"} => pw.left <= Len(pw.sources))
    /\ [][/\ (pw.pc = "loop" /\ pw' # pw) =>
                IF pw.sources = <<>>
                THEN pw' = DonePoller
                ELSE /\ pw'.pc = "poll"
                     /\ pw'.sources = pw.sources
                     /\ pw'.left = Len(pw.sources)
                     /\ ~pw'.had
          /\ Polls =>
                /\ pw.left > 0
                /\ ToPoll' = Tail(ToPoll)
                /\ Head(ToPoll) \notin {ToPoll'[i] : i \in DOMAIN ToPoll'}
                /\ pw'.had <=> (pw.had \/ pw'.ev.k # "none")
                /\ src' = Advance(Head(ToPoll), pw'.ev)
          /\ (PollerSent /\ pw'.pc # "done") =>
                /\ pw'.pc = "poll"
                /\ pw'.sources = pw.sources
                /\ pw'.left = pw.left /\ pw'.had = pw.had
          /\ (pw.pc = "poll" /\ pw'.pc \in {"loop", "sleep"}) =>
                /\ pw.left = 0
                /\ pw'.pc = "sleep" <=> ~pw.had
                /\ pw'.sources = pw.sources
          /\ pw.pc = "sleep" => pw'.pc \in {"sleep", "loop"}
          /\ (pw.pc # "done" /\ pw'.pc = "done") =>
                \/ pw.pc = "loop" /\ pw.sources = <<>>
                \/ pw.pc = "send" /\ ~agg.rx
         ]_vars

\* C23 witness: in the middle of a sweep over two sources the first one has
\* returned its error and is out of the deque; the second is still to poll.
C23_Witness ==
    /\ pw.pc = "poll"
    /\ pw.left = 1
    /\ Len(pw.sources) = 1
    /\ pw.had
    /\ \E s \in Srcs : src[s].kind = "polling" /\ s \notin Rotation

\* ---------------------------------------------------------------------------
\* Order.

\* The payloads of source s on their way to the handler, oldest first: those
\* in the aggregation channel, then the one its worker is about to send.
InChannel(s) ==
    LET f == SelectSeq(agg.buf, LAMBDA e : e.k = "ok" /\ e.s = s)
    IN [i \in 1 .. Len(f) |-> f[i].v]
InWorker(s) ==
    IF bw[s].pc = "send" /\ bw[s].ev.k = "ok" THEN <<bw[s].ev.v>>
    ELSE IF pw.pc = "send" /\ pw.ev.k = "ok" /\ pw.ev.s = s THEN <<pw.ev.v>>
    ELSE <<>>

\* C24: a subscriber's queue changes only by a visit of a publish, which
\* appends the message of that publish call at the end, or by a read, which
\* takes the oldest message; a publish call carries one message through all
\* its visits, and the calls of a publisher follow one another. The payloads
\* the handler was given from a source, followed by those of the source still
\* on the way, are the payloads in the order the source produced them.
C24_FifoPerProducer ==
    /\ [](\A s \in Srcs :
             /\ IsPrefix(hs.handled[s], RunPayloads(src[s].counter))
             /\ agg.rx => hs.handled[s] \o InChannel(s) \o InWorker(s)
                             = RunPayloads(src[s].counter))
    /\ [][/\ \A u \in Uids :
                queue'[u].buf # queue[u].buf =>
                   \/ \E p \in Pubs :
                         /\ Visits(p, u)
                         /\ queue'[u].buf = Append(queue[u].buf, pub[p].msg)
                   \/ /\ sub[u] = "live"
                      /\ queue'[u].buf = Tail(queue[u].buf)
                      /\ pub' = pub
          /\ \A p \in Pubs :
                (pub[p].pc = "iter" /\ pub'[p].pc = "iter")
                   => pub'[p].msg = pub[p].msg /\ pub'[p].topic = pub[p].topic
         ]_vars

\* C24 witness: the subscriber's queue holds m1 and m2 in the order of the
\* two publish calls, and the handler was given two payloads of the blocking
\* and two of the polling source.
C24_Witness ==
    /\ queue[0].buf = <<"m1", "m2">>
    /\ \A p \in Pubs : pub[p].pc = "idle"
    /\ Len(hs.handled["s1"]) = 2
    /\ Len(hs.handled["s2"]) = 2

\* ---------------------------------------------------------------------------
\* The end of an actor.

\* C25: the unregister call at the end of the actor's thread leaves in place
\* every registration that is not the one start_actor made, also one made
\* under the actor's name after a caller had unregistered the actor.
C25_ActorUnregistersOwn ==
    [][ActorUnregister =>
          \A n \in DOMAIN pool :
             pool[n].chan # ActorChan =>
                n \in DOMAIN pool' /\ pool'[n] = pool[n]
      ]_vars

\* ---------------------------------------------------------------------------
\* The workers after the end of start.

WorkersGone ==
    /\ \A s \in Srcs : bw[s].pc \in {"none", "done"}
    /\ pw.pc \in {"none", "done"}

\* C26: once start has returned, a send of a worker returns only with the end
\* of the worker and puts nothing into the channel, and, with every wait and
\* poll returning, every worker ends.
C26_WorkersExitAfterReturn ==
    /\ (phase = "returned") ~> WorkersGone
    /\ [][phase = "returned" =>
            /\ \A s \in Srcs : BlockingSent(s) => bw'[s] = DoneWorker
            /\ PollerSent => pw' = DonePoller
            /\ agg' = agg
         ]_vars

\* C26 witness: start returned the handler's error when the channel, of
\* capacity two, was full, and both workers have ended since.
C26_Witness ==
    /\ phase = "returned"
    /\ startRet.k = "err"
    /\ agg.cap = 2
    /\ agg.dropped = 1
    /\ WorkersGone
    /\ \E s \in Srcs : src[s].kind = "blocking" /\ src[s].counter < src[s].limit
    /\ \E s \in Srcs : src[s].kind = "polling" /\ src[s].counter < src[s].limit

\* C27: the registry created on first use is one map. Every call that has
\* loaded the pointer holds the map the pointer names, the pointer never
\* changes once set, and each call answers for every name registered by any
\* thread: register of such a name fails with ExistsAlready, send and
\* unregister find it, registered lists it.
EverRegistered == UNION {maps[i] : i \in DOMAIN maps}
Answer(op, has, any) ==
    IF op = "register" THEN IF has THEN "ExistsAlready" ELSE "Ok"
    ELSE IF op = "registered" THEN IF any THEN "Listed" ELSE "ListedNone"
    ELSE IF has THEN "Ok" ELSE "NotFound"
C27_SingleRegistry ==
    /\ [](\A t \in RegThreads :
            lz[t].pc = "op" => POOL # 0 /\ lz[t].got = POOL)
    /\ [][/\ POOL # 0 => POOL' = POOL
          /\ \A t \in RegThreads :
                lz[t].pc = "op" /\ lz'[t].pc = "idle" =>
                    lz'[t].res = Answer(lz[t].op,
                                        lz[t].name \in EverRegistered,
                                        EverRegistered # {})
         ]_vars
C27_Witness ==
    /\ lz["r1"].pc = "idle" /\ lz["r1"].op = "register"
    /\ lz["r1"].mine = 2 /\ lz["r1"].res = "Ok"
    /\ lz["r2"].pc = "idle" /\ lz["r2"].op = "send"
    /\ lz["r2"].mine = 1 /\ lz["r2"].res = "Ok"
    /\ POOL = 1 /\ maps[2] = {}

\* C28: a live Subscriber keeps a handle of its own Writer, so whatever the
\* bus does or loses (unsubscribe from every topic, shrink_to_fit, the last
\* Dispatch handle released) its flag stays false, its Receiver and its
\* SyncSender exist and its read does not report the disconnect. Once the
\* Subscriber is released, every writer handle the bus still holds for it
\* reports disconnected.
HeldFor(u) ==
    {t \in DOMAIN topics : \E k \in DOMAIN topics[t] : topics[t][k] = u}
C28_LiveSubscriberConnected ==
    /\ \A u \in Uids : sub[u] = "live" =>
          /\ ~queue[u].flag
          /\ queue[u].rx
          /\ WriterHandles(topics, sub, u) > 0
          /\ TryRecv(queue[u], WriterHandles(topics, sub, u) > 0).res
                # "Disconnected"
    /\ \A u \in Uids : sub[u] = "dropped" /\ HeldFor(u) # {} =>
          WriterDisconnected(queue[u])
C28_Witness ==
    /\ dispatch = 0 /\ topics = [t \in {} |-> t]
    /\ sub[0] = "live" /\ ~queue[0].flag /\ queue[0].buf = <<"m1">>
    /\ sub[1] = "dropped" /\ queue[1].flag

====
